---- MODULE Spec2Model ----
(***************************************************************************)
(* Zenith data plane, event ingestion core.                                *)
(*                                                                         *)
(*   core/src/ring_buffer.rs  ZenithRingBuffer over crossbeam's ArrayQueue *)
(*   core/src/lib.rs          zenith_init / zenith_publish / zenith_free   *)
(*   core/src/engine.rs       ZenithEngine and its consumer thread         *)
(*   core/src/event.rs        ZenithEvent                                  *)
(*                                                                         *)
(* The queue is modelled as ArrayQueue implements it: a slot array, each   *)
(* slot tagged with a stamp, and two counters head and tail that hold an   *)
(* index in the low bits and a lap in the high bits.  A push is two steps  *)
(* (claim the tail by compare-and-swap, then write the value and publish   *)
(* the slot's stamp), a pop is two steps (claim the head, then read the    *)
(* value and free the slot's stamp).                                       *)
(***************************************************************************)
EXTENDS Integers, Sequences, FiniteSets, TLC

VARIABLES
    cap,        \* capacity given to ZenithRingBuffer::new
    queue,      \* the ArrayQueue: [head, tail, stamp, value]
    ppc,        \* producer thread -> its position
    pcall,      \* producer thread -> the publish call it is in (0: none)
    ptail,      \* producer thread -> the tail it claimed
    pevent,     \* producer thread -> the event it is pushing
    cpc,        \* the consumer thread's position
    chead,      \* the head the consumer claimed
    cevent,     \* the event the consumer popped and is dispatching
    running,    \* ZenithEngine.running
    fpc,        \* position of the zenith_free call
    holders,    \* handles on the queue still alive (Arc strong count)
    crashed,    \* the process was aborted by a panic inside an extern "C" fn
    ncalls,     \* number of publish calls started
    callInfo,   \* call -> its arguments
    ret,        \* call -> the status it returned
    relArray,   \* call -> times the array descriptor's release was invoked
    relSchema,  \* call -> times the schema descriptor's release was invoked
    evState,    \* call -> where its event is
    enqueued,   \* call -> the events written into the queue by the call
    delivered,  \* the events the consumer popped, in order
    sent,       \* throughput test: producer thread -> items pushed so far
    opCount,    \* sequential driver: number of calls made so far
    lastOp,     \* sequential driver: the last call, "push" | "pop" | "none"
    lastArg,    \* sequential driver: the event given to the last push
    lastRet,    \* sequential driver: what the last call returned
    refq,       \* reference bounded FIFO (a plain sequence of events)
    refRet,     \* what the reference queue returned for the last call
    pushesOk,   \* number of pushes that succeeded
    popsOk,     \* number of pops that returned an event
    ipc,        \* zenith_init: "uninit" | "handle" | "null" | "aborted"
    initCap,    \* the buffer_size given to zenith_init
    atFree,     \* the events that were in the queue when zenith_free was called
    plugins,    \* the loaded plugins, in load order
    lastLoad,   \* the last zenith_load_plugin call: what was given, the status
    invoked,    \* the on_event calls the consumer's dispatch has made, in order
    telemetry,  \* counters the consumer's dispatch keeps: processed, accepted
    marked,     \* call -> the mark dispatch put on its event for later stages
    tpc,        \* invoking thread -> its position inside WasmPlugin::trigger
    tplug,      \* invoking thread -> the plugin it is invoking
    plock,      \* plugin -> the thread that holds its store's Mutex (0: free)
    tlast,      \* invoking thread -> what its last trigger call did
    tel,        \* TelemetryCollector: the atomic counters
    rpc,        \* recording thread -> its position inside a collector call
    rarg,       \* recording thread -> the argument of its call
    rcur,       \* recording thread -> the current_max its loop loaded
    nrec,       \* number of collector calls started
    since,      \* what was recorded since the last reset (unbounded integers)
    overlap,    \* a call ran while a reset was in progress
    cfg,        \* scheduler: started, and the SchedulerConfig in force
    nodes,      \* node -> liveness state and age of the last heartbeat
    jobs,       \* job -> state, priority, requirements, submission timestamp
    res,        \* job -> node -> what its reservation debits on the node
    jobq,       \* the job queue, in the order jobs are considered
    cyc,        \* the scheduling cycle in progress
    dp,         \* DataPlaneEngine: channel, running flag, stats counter
    dcall,      \* calling thread -> its position inside DataPlaneEngine.ingest
    dtask,      \* spawned processing task -> its position in the loop
    pool,       \* PinnedThreadPool: handles, and the join_all call
    thr,        \* spawn call -> the thread it created
    heap,       \* the ArrayQueue allocations behind the Arc pointers
    hnd,        \* ZenithRingBuffer handle -> the allocation its Arc points to
    hops,       \* the calls made through the handles, and a reference FIFO
    ce,         \* CpuEngine: the running flag, its collector's flag, the calls
    cepc,       \* task -> its position inside CpuEngine.run
    pl,         \* Pipeline: its stages, and the last execute call
    snp         \* the thread inside TelemetryCollector.snapshot: what it loaded

ringVars == <<cap, queue>>
engineVars == <<ppc, pcall, ptail, pevent, cpc, chead, cevent, running, fpc,
                holders, crashed, ncalls, callInfo, ret, relArray, relSchema,
                evState, enqueued, delivered, sent>>
driverVars == <<opCount, lastOp, lastArg, lastRet, refq, refRet>>
countVars == <<pushesOk, popsOk>>

lifeVars == <<ipc, initCap, atFree>>
hostVars == <<plugins, lastLoad, invoked, telemetry, marked, tpc, tplug, plock,
              tlast>>

telVars == <<tel, rpc, rarg, rcur, nrec, since, overlap>>
schedVars == <<cfg, nodes, jobs, res, jobq, cyc>>
planeVars == <<dp, dcall, dtask>>
poolVars == <<pool, thr>>
handleVars == <<heap, hnd, hops>>
cpuVars == <<ce, cepc>>
pipeVars == <<pl>>
snapVars == <<snp>>
auxVars == <<planeVars, poolVars, handleVars, cpuVars, pipeVars, snapVars>>
sideVars == <<telVars, schedVars, auxVars>>

vars == <<ringVars, engineVars, driverVars, countVars, lifeVars, hostVars,
          sideVars>>

(***************************************************************************)
(* Bounds of the model.                                                    *)
(***************************************************************************)
MaxCap == 4
MaxOps == 13
MaxEngineCap == 2
MaxCalls == 3
MaxItems == 3
MaxPlugins == 2
MaxRecords == 3
MaxJobs == 3
MaxCycles == 2
MaxIngest == 3
MaxStarts == 2
MaxQueueSize == 2
MaxSpawns == 3
NumCores == 2
MaxHandles == 3
MaxHandleCap == 2
MaxHandleOps == 5
MaxRuns == 3
MaxStops == 2
MaxStages == 3
MaxEvent == 3
CounterModulus == 16

\* the source ids of the sequential driver, the sequence numbers callers hand in
Sources == {1, 2}
SeqNos == {1, 2}
NoEvent == [src |-> 0, seq |-> 0, payload |-> 0]

(***************************************************************************)
(* ZenithEvent::new: the header carries the caller's source id and         *)
(* sequence number, the payload is the record batch (named here by the     *)
(* publish call whose descriptors it owns; 0 for a batch that owns no      *)
(* foreign memory).  The timestamp and the flags word are not modelled.    *)
(***************************************************************************)
\* variant: the header's sequence number is filled from the source id
ZenithEventSeqFromSource(source_id, seq_no, payload) ==
    [src |-> source_id, seq |-> source_id, payload |-> payload]

ZenithEvent(source_id, seq_no, payload) ==
    [src |-> source_id, seq |-> seq_no, payload |-> payload]

(***************************************************************************)
(* ArrayQueue::new.  one_lap is (cap + 1).next_power_of_two(); slot i      *)
(* starts with stamp i; head and tail start at 0.                          *)
(***************************************************************************)
RECURSIVE NextPow2From(_, _)
NextPow2From(p, n) == IF p >= n THEN p ELSE NextPow2From(2 * p, n)

OneLap(c) == NextPow2From(1, c + 1)

Index(c, pos) == pos % OneLap(c)
Lap(c, pos) == pos - Index(c, pos)

\* the counter after a slot has been claimed: next index, or index 0 of the next lap
Advance(c, pos) ==
    IF Index(c, pos) + 1 < c THEN pos + 1 ELSE Lap(c, pos) + OneLap(c)

ZenithRingBufferNew(c) ==
    [head  |-> 0,
     tail  |-> 0,
     stamp |-> [i \in 0..(c - 1) |-> i],
     value |-> [i \in 0..(c - 1) |-> NoEvent]]

(***************************************************************************)
(* ArrayQueue::push, one iteration of its loop on the current counters:    *)
(*   "claim"  the slot at tail is free (stamp = tail): the CAS on tail     *)
(*   "full"   the slot holds a value of the previous lap and               *)
(*            head + one_lap = tail: the push returns Err                  *)
(*   "retry"  anything else: back off and reload                           *)
(***************************************************************************)
\* variant: the slot's stamp is not consulted, only the two counters
PushTryIgnoreStamp(c, q) ==
    IF q.head + OneLap(c) = q.tail THEN "full" ELSE "claim"

PushTry(c, q) ==
    LET stamp == q.stamp[Index(c, q.tail)] IN
    IF q.tail = stamp THEN "claim"
    ELSE IF stamp + OneLap(c) = q.tail + 1
         THEN (IF q.head + OneLap(c) = q.tail THEN "full" ELSE "retry")
         ELSE "retry"

PushClaim(c, q) == [q EXCEPT !.tail = Advance(c, q.tail)]

\* slot.value.write(value); slot.stamp.store(tail + 1), for the claimed tail t
PushWrite(c, q, t, v) ==
    [q EXCEPT !.value[Index(c, t)] = v, !.stamp[Index(c, t)] = t + 1]

(***************************************************************************)
(* ArrayQueue::pop, one iteration of its loop:                             *)
(*   "claim"  the slot at head holds a value (stamp = head + 1)            *)
(*   "empty"  the slot is free and tail = head: the pop returns None       *)
(*   "retry"  anything else                                                *)
(***************************************************************************)
PopTry(c, q) ==
    LET stamp == q.stamp[Index(c, q.head)] IN
    IF q.head + 1 = stamp THEN "claim"
    ELSE IF stamp = q.head
         THEN (IF q.tail = q.head THEN "empty" ELSE "retry")
         ELSE "retry"

\* variant: the head is left where it was (the result of the CAS is not applied)
PopClaimNoAdvance(c, q) == q

PopClaim(c, q) == [q EXCEPT !.head = Advance(c, q.head)]

\* variant: the value is read, the slot's stamp is not stored
PopReadKeepStamp(c, q, h) == [q EXCEPT !.value[Index(c, h)] = NoEvent]

\* msg = slot.value.read(); slot.stamp.store(head + one_lap), for the claimed head h
PopRead(c, q, h) ==
    [q EXCEPT !.value[Index(c, h)] = NoEvent, !.stamp[Index(c, h)] = h + OneLap(c)]

(***************************************************************************)
(* ZenithRingBuffer::len and is_empty (ArrayQueue::len, is_empty).         *)
(***************************************************************************)
\* variant: equal indices are taken for an empty queue, also one lap apart
lenNoFullCase(c, q) ==
    LET hix == Index(c, q.head)
        tix == Index(c, q.tail)
    IN  IF hix <= tix THEN tix - hix ELSE c - hix + tix

len(c, q) ==
    LET hix == Index(c, q.head)
        tix == Index(c, q.tail)
    IN  IF hix < tix THEN tix - hix
        ELSE IF hix > tix THEN c - hix + tix
        ELSE IF q.tail = q.head THEN 0
        ELSE c

is_empty(c, q) == q.tail = q.head

\* the queued events, oldest first: the slots from head up to tail
RECURSIVE SlotsFrom(_, _, _, _)
SlotsFrom(c, q, pos, n) ==
    IF n = 0 THEN <<>>
    ELSE <<q.value[Index(c, pos)]>> \o SlotsFrom(c, q, Advance(c, pos), n - 1)

Contents(c, q) == SlotsFrom(c, q, q.head, len(c, q))

(***************************************************************************)
(* ZenithRingBuffer::push and pop called from one thread: the two steps of *)
(* each run back to back.                                                  *)
(***************************************************************************)
\* variant: the error of a full queue is swallowed
pushSwallowsFull(c, q, event) ==
    IF PushTry(c, q) = "claim"
    THEN [q |-> PushWrite(c, PushClaim(c, q), q.tail, event), ret |-> "Ok"]
    ELSE [q |-> q, ret |-> "Ok"]

push(c, q, event) ==
    IF PushTry(c, q) = "claim"
    THEN [q |-> PushWrite(c, PushClaim(c, q), q.tail, event), ret |-> "Ok"]
    ELSE [q |-> q, ret |-> "BufferFull"]

pop(c, q) ==
    IF PopTry(c, q) = "claim"
    THEN [q |-> PopRead(c, PopClaim(c, q), q.head),
          ret |-> q.value[Index(c, q.head)]]
    ELSE [q |-> q, ret |-> NoEvent]

(***************************************************************************)
(* Reference bounded FIFO of capacity c.                                   *)
(***************************************************************************)
RefPush(c, s, event) ==
    IF Len(s) < c THEN [q |-> Append(s, event), ret |-> "Ok"]
    ELSE [q |-> s, ret |-> "BufferFull"]

RefPop(s) ==
    IF Len(s) > 0 THEN [q |-> Tail(s), ret |-> Head(s)]
    ELSE [q |-> s, ret |-> NoEvent]

(***************************************************************************)
(* The engine behind the foreign-function boundary.                        *)
(*                                                                         *)
(* A publish call is named by its number, in the order the calls start.    *)
(* Its arguments: the three pointers (null or not), what the descriptors   *)
(* hold, the source id and the sequence number.                            *)
(*   "null"       one of the pointers is null                              *)
(*   "invalid"    arrow::ffi::from_ffi rejects the descriptors             *)
(*   "nonstruct"  from_ffi accepts them, the root type is not a struct     *)
(*   "struct"     a struct array: a record batch                           *)
(* Each producer thread is one source: thread p publishes as source p.     *)
(***************************************************************************)
Producers == {1, 2}
Calls == 1..MaxCalls
NoCall == [caller |-> 0, kind |-> "none", src |-> 0, seq |-> 0]
\* the status a call returned: <<>> until it returns, then <<status>>
NoRet == <<>>

\* drop of an event (its record batch, the last owner of the imported array)
\* variant: the release callback is run by hand and again by the drop
DropEventTwice(rel, e) ==
    IF e.payload = 0 THEN rel ELSE [rel EXCEPT ![e.payload] = @ + 2]

DropEvent(rel, e) ==
    IF e.payload = 0 THEN rel ELSE [rel EXCEPT ![e.payload] = @ + 1]

\* variant: the rejected event is forgotten instead of dropped
KeepRejected(rel, e) == rel

\* map_err(|_| ZenithError::BufferFull): the event ArrayQueue handed back is dropped
DropRejected(rel, e) == DropEvent(rel, e)

RECURSIVE DropAll(_, _)
DropAll(rel, es) ==
    IF es = <<>> THEN rel ELSE DropAll(DropEvent(rel, Head(es)), Tail(es))

Payloads(es) == {es[i].payload : i \in 1..Len(es)}

\* variant: the queue's memory is freed without dropping what it holds
TeardownRelLeak(n, rel) == rel

\* drop of the ArrayQueue when its last handle goes: the queued events are dropped
TeardownRel(n, rel) == IF n = 0 THEN DropAll(rel, Contents(cap, queue)) ELSE rel
TeardownState(n, st) ==
    IF n = 0
    THEN [c \in Calls |->
            IF c \in Payloads(Contents(cap, queue)) THEN "destroyed" ELSE st[c]]
    ELSE st

\* What a loaded module exports under the name on_event:
\*   "passive"   : nothing;
\*   "canonical" : on_event(source_id: u32, seq_no: u64) -> i32, the signature
\*                 of plugins/simple_filter;
\*   "unit"      : on_event() with no parameter and no result.
PluginKinds == {"passive", "canonical", "unit"}
Invokers == {1, 2, 3}
NoLoad == [given |-> "none", status |-> NoRet]
NoTrigger == [plugin |-> 0, guest |-> FALSE, result |-> "none"]

\* no thread is inside WasmPlugin::trigger or zenith_load_plugin
HostIdle ==
    /\ lastLoad = NoLoad
    /\ invoked = <<>>
    /\ telemetry = [processed |-> 0, accepted |-> 0]
    /\ marked = [c \in Calls |-> "none"]
    /\ tpc = [t \in Invokers |-> "idle"]
    /\ tplug = [t \in Invokers |-> 0]
    /\ plock = [i \in 1..MaxPlugins |-> 0]
    /\ tlast = [t \in Invokers |-> NoTrigger]

Recorders == {1, 2}
ByteSizes == {5, 12}
Latencies == {3, 9, 14}
NoCounts == [events |-> 0, bytes |-> 0, latency_sum |-> 0, latency_count |-> 0,
             latency_max |-> 0]

\* TelemetryCollector::new: every counter is 0, no call is in progress
TelemetryIdle ==
    /\ tel = NoCounts
    /\ rpc = [r \in Recorders |-> "idle"]
    /\ rarg = [r \in Recorders |-> 0]
    /\ rcur = [r \in Recorders |-> 0]
    /\ nrec = 0
    /\ since = NoCounts
    /\ overlap = FALSE

\* variant: the timeout is taken for minutes
heartbeat_timeout_minutes == 60 * 60

\* SchedulerConfig::default
heartbeat_timeout_seconds == 60
max_schedule_batch == 100

\* the fleet and the jobs of the scheduler's scenarios
NodeAccelerators == 8
preemption_margin == 2
NodeSeq == <<"n1", "n2">>
Nodes == {NodeSeq[i] : i \in 1..Len(NodeSeq)}
Jobs == 1..MaxJobs
\* the requests each job identifier is submitted with
Requests ==
    <<{<<8, "wide16">>, <<8, "split4">>},
      {<<5, "host8">>, <<5, "wide16">>},
      {<<5, "host8">>, <<6, "split4">>}>>

NoDebit == [devices |-> {}, cpu |-> 0, mem |-> 0]
NoReservation == [n \in Nodes |-> NoDebit]
NoJob == [state |-> "none", priority |-> 0, shape |-> "none", submitted |-> 0,
          boost |-> 0]
NoCycle == [active |-> FALSE, number |-> 0, queued0 |-> {}, considered |-> {},
            blocked |-> 0, passed |-> {}, aborted |-> FALSE, attempts |-> 0,
            cur |-> 0, plan |-> NoReservation, victims |-> {}]

\* the scheduler service is not started: no node, no job, no cycle
SchedulerIdle ==
    /\ cfg = [started |-> FALSE, backfill_enabled |-> TRUE]
    /\ nodes = [n \in Nodes |-> [status |-> "Inactive", age |-> 0]]
    /\ jobs = [j \in Jobs |-> NoJob]
    /\ res = [j \in Jobs |-> NoReservation]
    /\ jobq = <<>>
    /\ cyc = NoCycle

\* the threads that call into the DataPlaneEngine; the first one is the thread
\* that drives the runtime when the runtime has a single thread
Callers == {1, 2}
Driver == 1
Tasks == 1..MaxStarts
Flavors == {"multi_thread", "current_thread"}
NoPlane == [built |-> FALSE, flavor |-> "none", queue_size |-> 0,
            chan |-> <<>>, running |-> FALSE, stats |-> 0, ingests |-> 0,
            accepted |-> {}, received |-> <<>>, started |-> FALSE,
            stopped |-> FALSE]

\* no DataPlaneEngine has been constructed
PlaneIdle ==
    /\ dp = NoPlane
    /\ dcall = [c \in Callers |-> 0]
    /\ dtask = [t \in Tasks |-> "none"]

\* PinnedThreadPool::new: no handle; a thread is named by its spawn call
Spawns == 1..MaxSpawns
NoCore == -1
NoThread == [state |-> "none", core |-> NoCore, pinned |-> "none", runs |-> 0,
             outcome |-> "none"]
PoolIdle ==
    /\ pool = [handles |-> <<>>, spawns |-> 0, errors |-> 0, jpc |-> "open",
               results |-> <<>>]
    /\ thr = [i \in Spawns |-> NoThread]

\* no ZenithEngine has been constructed: no queue, no handle
NoOps == [cap |-> 0, count |-> 0, via |-> 0, op |-> "none", ret |-> <<>>,
          ref |-> <<>>, refret |-> <<>>, pushedVia |-> <<>>, from |-> 0,
          crossFull |-> 0]
HandleIdle ==
    /\ heap = <<>>
    /\ hnd = <<>>
    /\ hops = NoOps

\* CpuEngine::new: running is false, the collector is not collecting
Runners == {1, 2}
CpuIdle ==
    /\ ce = [running |-> FALSE, telemetry |-> FALSE, runs |-> 0, stops |-> 0,
             spc |-> "idle", before |-> {}, after |-> FALSE]
    /\ cepc = [t \in Runners |-> "idle"]

\* Pipeline::new: no stage; no execute call has been made
Some(e) == [tag |-> "Some", val |-> e]
None == [tag |-> "None", val |-> 0]
Err(e) == [tag |-> "Err", val |-> e]
PipeIdle ==
    pl = [stages |-> <<>>, done |-> FALSE, input |-> 0, out |-> None,
          calls |-> <<>>]

\* no snapshot call has been made
NoSnapshot == [pc |-> "idle", latency_count |-> 0, latency_sum |-> 0,
               counted |-> 0, reset |-> FALSE, quiet |-> TRUE, nrec0 |-> 0,
               avg_latency_us |-> 0, max_latency_us |-> 0]
SnapIdle == snp = NoSnapshot

AuxIdle ==
    PlaneIdle /\ PoolIdle /\ HandleIdle /\ CpuIdle /\ PipeIdle /\ SnapIdle

SideIdle == TelemetryIdle /\ SchedulerIdle /\ AuxIdle

\* zenith_init(cap) has returned a handle: the engine exists, its consumer runs
EngineInit ==
    /\ SideIdle
    /\ ipc = "handle"
    /\ initCap = cap
    /\ atFree = {}
    /\ HostIdle
    /\ ppc = [p \in Producers |-> "idle"]
    /\ pcall = [p \in Producers |-> 0]
    /\ ptail = [p \in Producers |-> 0]
    /\ pevent = [p \in Producers |-> NoEvent]
    /\ cpc = "check"
    /\ chead = 0
    /\ cevent = NoEvent
    /\ running = TRUE
    /\ fpc = "none"
    /\ holders = 2
    /\ crashed = FALSE
    /\ ncalls = 0
    /\ callInfo = [c \in Calls |-> NoCall]
    /\ ret = [c \in Calls |-> NoRet]
    /\ relArray = [c \in Calls |-> 0]
    /\ relSchema = [c \in Calls |-> 0]
    /\ evState = [c \in Calls |-> "none"]
    /\ enqueued = [c \in Calls |-> <<>>]
    /\ delivered = <<>>
    /\ sent = [p \in Producers |-> 0]

DriverIdle ==
    /\ opCount = 0
    /\ lastOp = "none"
    /\ lastArg = NoEvent
    /\ lastRet = "none"
    /\ refq = <<>>
    /\ refRet = "none"

Init ==
    /\ cap \in 1..MaxEngineCap
    /\ queue = ZenithRingBufferNew(cap)
    /\ EngineInit
    /\ plugins = <<>>
    /\ DriverIdle
    /\ pushesOk = 0
    /\ popsOk = 0

\* The arguments of a call.  seq_no is read by ZenithEvent::new alone: the
\* calls that never get there all carry sequence number 1.
Args(p, k, n) == [caller |-> p, kind |-> k, src |-> p, seq |-> n]

\* when a publish call may start: the handle is live and the thread is free
CanCall(p) ==
    /\ ipc = "handle"
    /\ ~crashed
    /\ fpc = "none"
    /\ ppc[p] = "idle"
    /\ ncalls < MaxCalls

(***************************************************************************)
(* zenith_publish, a null pointer among its arguments: returns -1 before   *)
(* anything is read.                                                       *)
(***************************************************************************)
\* variant: the schema pointer is not checked
IsNullCallNoSchema(engine_null, array_null, schema_null) ==
    engine_null \/ array_null

IsNullCall(engine_null, array_null, schema_null) ==
    engine_null \/ array_null \/ schema_null

\* a call with a null pointer among its arguments; a null pointer that got
\* past the check would be dereferenced
PublishNull(p) ==
    /\ CanCall(p)
    /\ callInfo' = [callInfo EXCEPT ![ncalls + 1] = Args(p, "null", 1)]
    /\ ncalls' = ncalls + 1
    /\ \E engine_null, array_null, schema_null \in BOOLEAN :
         /\ engine_null \/ array_null \/ schema_null
         /\ IF IsNullCall(engine_null, array_null, schema_null)
            THEN /\ ret' = [ret EXCEPT ![ncalls + 1] = <<-1>>]
                 /\ UNCHANGED <<ppc, pcall, crashed>>
            ELSE /\ crashed' = TRUE
                 /\ pcall' = [pcall EXCEPT ![p] = ncalls + 1]
                 /\ ppc' = [ppc EXCEPT ![p] = "aborted"]
                 /\ UNCHANGED ret
    /\ UNCHANGED <<ringVars, ptail, pevent, cpc, chead, cevent, running, fpc,
                   holders, relArray, relSchema, evState, enqueued, delivered, sent,
                   driverVars, countVars,
                   lifeVars, hostVars, sideVars>>

\* the call returns: its locals go out of scope, `schema` among them
Return(p, c, status) ==
    /\ ret' = [ret EXCEPT ![c] = <<status>>]
    /\ relSchema' = [relSchema EXCEPT ![c] = @ + 1]
    /\ pcall' = [pcall EXCEPT ![p] = 0]
    /\ ppc' = [ppc EXCEPT ![p] = "idle"]

(***************************************************************************)
(* zenith_publish, no null pointer: ptr::read moves both descriptors into  *)
(* the call (array, schema).  from_ffi(array, &schema) returns Err:        *)
(* `array` was moved into from_ffi and is dropped there; the call returns  *)
(* -4.                                                                     *)
(***************************************************************************)
PublishFfiError(p) ==
    /\ CanCall(p)
    /\ callInfo' = [callInfo EXCEPT ![ncalls + 1] = Args(p, "invalid", 1)]
    /\ ncalls' = ncalls + 1
    /\ relArray' = [relArray EXCEPT ![ncalls + 1] = @ + 1]
    /\ evState' = [evState EXCEPT ![ncalls + 1] = "destroyed"]
    /\ Return(p, ncalls + 1, -4)
    /\ UNCHANGED <<ringVars, ptail, pevent, cpc, chead, cevent, running, fpc,
                   holders, crashed, enqueued, delivered, sent, driverVars, countVars,
                   lifeVars, hostVars, sideVars>>

(***************************************************************************)
(* from_ffi returns Ok for an array that is no struct: StructArray::from   *)
(* does not verify the layout and RecordBatch::from(&StructArray) panics.  *)
(* The panic cannot leave an extern "C" fn: the process is aborted, after  *)
(* the unwinding has dropped the call's locals or before any of it.        *)
(***************************************************************************)
PublishPanic(p) ==
    /\ CanCall(p)
    /\ callInfo' = [callInfo EXCEPT ![ncalls + 1] = Args(p, "nonstruct", 1)]
    /\ ncalls' = ncalls + 1
    /\ \E unwound \in BOOLEAN :
         /\ relArray' = [relArray EXCEPT ![ncalls + 1] = IF unwound THEN @ + 1 ELSE @]
         /\ relSchema' = [relSchema EXCEPT ![ncalls + 1] = IF unwound THEN @ + 1 ELSE @]
         /\ evState' = [evState EXCEPT ![ncalls + 1] =
                          IF unwound THEN "destroyed" ELSE "owned"]
    /\ crashed' = TRUE
    /\ pcall' = [pcall EXCEPT ![p] = ncalls + 1]
    /\ ppc' = [ppc EXCEPT ![p] = "aborted"]
    /\ UNCHANGED <<ringVars, ptail, pevent, cpc, chead, cevent, running, fpc,
                   holders, ret, enqueued, delivered, sent, driverVars, countVars,
                   lifeVars, hostVars, sideVars>>

(***************************************************************************)
(* from_ffi returns Ok for a struct array: the record batch and the event  *)
(* are built (ZenithEvent::new), the event owns the imported array.        *)
(***************************************************************************)
PublishConvert(p) ==
    /\ CanCall(p)
    /\ \E n \in SeqNos :
         /\ callInfo' = [callInfo EXCEPT ![ncalls + 1] = Args(p, "struct", n)]
         /\ pevent' = [pevent EXCEPT ![p] = ZenithEvent(p, n, ncalls + 1)]
    /\ ncalls' = ncalls + 1
    /\ pcall' = [pcall EXCEPT ![p] = ncalls + 1]
    /\ evState' = [evState EXCEPT ![ncalls + 1] = "owned"]
    /\ ppc' = [ppc EXCEPT ![p] = "push"]
    /\ UNCHANGED <<ringVars, ptail, cpc, chead, cevent, running, fpc, holders,
                   crashed, ret, relArray, relSchema, enqueued, delivered, sent, driverVars,
                   countVars,
                   lifeVars, hostVars, sideVars>>

(***************************************************************************)
(* engine.get_ring_buffer().push(event), the claim of a slot.              *)
(***************************************************************************)
PublishPushClaim(p) ==
    /\ ~crashed
    /\ ppc[p] = "push"
    /\ PushTry(cap, queue) = "claim"
    /\ queue' = PushClaim(cap, queue)
    /\ ptail' = [ptail EXCEPT ![p] = queue.tail]
    /\ ppc' = [ppc EXCEPT ![p] = "write"]
    /\ pushesOk' = pushesOk + 1
    /\ UNCHANGED <<cap, pcall, pevent, cpc, chead, cevent, running, fpc,
                   holders, crashed, ncalls, callInfo, ret, relArray, relSchema,
                   evState, enqueued, delivered, sent, driverVars, popsOk,
                   lifeVars, hostVars, sideVars>>

(***************************************************************************)
(* push finds the queue full: ArrayQueue hands the event back, map_err     *)
(* drops it, the call returns -2.                                          *)
(***************************************************************************)
PublishPushFull(p) ==
    /\ ~crashed
    /\ ppc[p] = "push"
    /\ PushTry(cap, queue) = "full"
    /\ relArray' = DropRejected(relArray, pevent[p])
    /\ evState' = [evState EXCEPT ![pcall[p]] = "destroyed"]
    /\ pevent' = [pevent EXCEPT ![p] = NoEvent]
    /\ Return(p, pcall[p], -2)
    /\ UNCHANGED <<ringVars, ptail, cpc, chead, cevent, running, fpc, holders,
                   crashed, ncalls, callInfo, enqueued, delivered, sent, driverVars, countVars,
                   lifeVars, hostVars, sideVars>>

(***************************************************************************)
(* push writes the event into the claimed slot and publishes the slot's    *)
(* stamp; the call returns 0.                                              *)
(***************************************************************************)
PublishPushWrite(p) ==
    /\ ~crashed
    /\ ppc[p] = "write"
    /\ queue' = PushWrite(cap, queue, ptail[p], pevent[p])
    /\ evState' = [evState EXCEPT ![pcall[p]] = "queued"]
    /\ enqueued' = [enqueued EXCEPT ![pcall[p]] = Append(@, pevent[p])]
    /\ pevent' = [pevent EXCEPT ![p] = NoEvent]
    /\ Return(p, pcall[p], 0)
    /\ UNCHANGED <<cap, ptail, cpc, chead, cevent, running, fpc, holders,
                   crashed, ncalls, callInfo, relArray, delivered, sent, driverVars,
                   countVars,
                   lifeVars, hostVars, sideVars>>

(***************************************************************************)
(* ZenithEngine::start, the consumer thread.                               *)
(***************************************************************************)
\* while running.load(): the flag is set
\* variant: the loop does not look at the flag
ConsumerCheckIgnoresFlag ==
    /\ ~crashed
    /\ cpc = "check"
    /\ cpc' = "pop"
    /\ UNCHANGED <<ringVars, ppc, pcall, ptail, pevent, chead, cevent, running,
                   fpc, holders, crashed, ncalls, callInfo, ret, relArray,
                   relSchema, evState, enqueued, delivered, sent, driverVars,
                   countVars, lifeVars, hostVars, sideVars>>

\* while running.load(): the flag is set, the loop goes on to buffer.pop()
ConsumerCheck ==
    /\ ~crashed
    /\ cpc = "check"
    /\ running
    /\ cpc' = "pop"
    /\ UNCHANGED <<ringVars, ppc, pcall, ptail, pevent, chead, cevent, running,
                   fpc, holders, crashed, ncalls, callInfo, ret, relArray,
                   relSchema, evState, enqueued, delivered, sent, driverVars, countVars,
                   lifeVars, hostVars, sideVars>>

\* the flag is cleared: the thread ends and drops its handle on the queue
ConsumerExit ==
    /\ ~crashed
    /\ cpc = "check"
    /\ ~running
    /\ cpc' = "exited"
    /\ holders' = holders - 1
    /\ relArray' = TeardownRel(holders - 1, relArray)
    /\ evState' = TeardownState(holders - 1, evState)
    /\ UNCHANGED <<ringVars, ppc, pcall, ptail, pevent, chead, cevent, running,
                   fpc, crashed, ncalls, callInfo, ret, relSchema, enqueued, delivered, sent,
                   driverVars, countVars,
                   lifeVars, hostVars, sideVars>>

\* buffer.pop() claims the slot at head
ConsumerPopClaim ==
    /\ ~crashed
    /\ cpc = "pop"
    /\ PopTry(cap, queue) = "claim"
    /\ queue' = PopClaim(cap, queue)
    /\ chead' = queue.head
    /\ cpc' = "read"
    /\ popsOk' = popsOk + 1
    /\ UNCHANGED <<cap, ppc, pcall, ptail, pevent, cevent, running, fpc,
                   holders, crashed, ncalls, callInfo, ret, relArray, relSchema,
                   evState, enqueued, delivered, sent, driverVars, pushesOk,
                   lifeVars, hostVars, sideVars>>

\* buffer.pop() returns None: park_timeout, then the next iteration
ConsumerPopEmpty ==
    /\ ~crashed
    /\ cpc = "pop"
    /\ PopTry(cap, queue) = "empty"
    /\ cpc' = "check"
    /\ UNCHANGED <<ringVars, ppc, pcall, ptail, pevent, chead, cevent, running,
                   fpc, holders, crashed, ncalls, callInfo, ret, relArray,
                   relSchema, evState, enqueued, delivered, sent, driverVars, countVars,
                   lifeVars, hostVars, sideVars>>

\* buffer.pop() moves the event out of the claimed slot and frees the slot
ConsumerPopRead ==
    /\ ~crashed
    /\ cpc = "read"
    /\ LET e == queue.value[Index(cap, chead)] IN
         /\ cevent' = e
         /\ delivered' = Append(delivered, e)
         /\ evState' = [evState EXCEPT ![e.payload] = "popped"]
    /\ queue' = PopRead(cap, queue, chead)
    /\ cpc' = "dispatch"
    /\ UNCHANGED <<cap, ppc, pcall, ptail, pevent, chead, running, fpc,
                   holders, crashed, ncalls, callInfo, ret, relArray, relSchema,
                   enqueued, sent, driverVars, countVars,
                   lifeVars, hostVars, sideVars>>

\* the body of `if let Some(_event)`: nothing is done, _event is dropped
ConsumerDispatch ==
    /\ ~crashed
    /\ cpc = "dispatch"
    /\ relArray' = DropEvent(relArray, cevent)
    /\ evState' = [evState EXCEPT ![cevent.payload] = "destroyed"]
    /\ cevent' = NoEvent
    /\ cpc' = "check"
    /\ UNCHANGED <<ringVars, ppc, pcall, ptail, pevent, chead, running, fpc,
                   holders, crashed, ncalls, callInfo, ret, relSchema,
                   enqueued, delivered, sent, driverVars, countVars,
                   lifeVars, hostVars, sideVars>>

(***************************************************************************)
(* zenith_free(handle), handle not null and no publish call in progress:   *)
(* engine.shutdown() clears the flag, then the Box is dropped and with it  *)
(* the engine's handle on the queue.                                       *)
(***************************************************************************)
FreeShutdown ==
    /\ ipc = "handle"
    /\ ~crashed
    /\ fpc = "none"
    /\ \A p \in Producers : ppc[p] = "idle"
    /\ running' = FALSE
    /\ fpc' = "shutdown"
    /\ atFree' = Payloads(Contents(cap, queue))
    /\ UNCHANGED <<ringVars, ppc, pcall, ptail, pevent, cpc, chead, cevent,
                   holders, crashed, ncalls, callInfo, ret, relArray, relSchema,
                   evState, enqueued, delivered, sent, driverVars, countVars,
                   ipc, initCap, hostVars, sideVars>>

FreeDrop ==
    /\ ~crashed
    /\ fpc = "shutdown"
    /\ fpc' = "done"
    /\ holders' = holders - 1
    /\ relArray' = TeardownRel(holders - 1, relArray)
    /\ evState' = TeardownState(holders - 1, evState)
    /\ UNCHANGED <<ringVars, ppc, pcall, ptail, pevent, cpc, chead, cevent,
                   running, crashed, ncalls, callInfo, ret, relSchema,
                   enqueued, delivered, sent, driverVars, countVars,
                   lifeVars, hostVars, sideVars>>

Publish(p) ==
    \/ PublishNull(p)
    \/ PublishFfiError(p)
    \/ PublishPanic(p)
    \/ PublishConvert(p)
    \/ PublishPushClaim(p)
    \/ PublishPushFull(p)
    \/ PublishPushWrite(p)

Consumer ==
    \/ ConsumerCheck
    \/ ConsumerExit
    \/ ConsumerPopClaim
    \/ ConsumerPopEmpty
    \/ ConsumerPopRead
    \/ ConsumerDispatch

Free == FreeShutdown \/ FreeDrop

Next == (\E p \in Producers : Publish(p)) \/ Consumer \/ Free

Spec == Init /\ [][Next]_vars

\* The consumer thread is scheduled, and a zenith_free call that has begun
\* runs to its end.  Nothing makes anybody call zenith_publish or zenith_free.
FairSpec == Spec /\ WF_vars(Consumer) /\ WF_vars(FreeDrop)

(***************************************************************************)
(* zenith_init(buffer_size).  ZenithEngine::new builds the ring buffer     *)
(* first: ArrayQueue::new panics on capacity 0, and the panic cannot leave *)
(* the extern "C" fn, so the process is aborted.  Then WasmHost::new; its  *)
(* error is the one failure that comes back as Err and gives null.         *)
(* Otherwise the consumer thread is started and the handle returned.       *)
(***************************************************************************)
NoEngine ==
    /\ cap = 0
    /\ queue = ZenithRingBufferNew(0)
    /\ ppc = [p \in Producers |-> "idle"]
    /\ pcall = [p \in Producers |-> 0]
    /\ ptail = [p \in Producers |-> 0]
    /\ pevent = [p \in Producers |-> NoEvent]
    /\ cpc = "unstarted"
    /\ chead = 0
    /\ cevent = NoEvent
    /\ running = FALSE
    /\ fpc = "none"
    /\ holders = 0
    /\ crashed = FALSE
    /\ ncalls = 0
    /\ callInfo = [c \in Calls |-> NoCall]
    /\ ret = [c \in Calls |-> NoRet]
    /\ relArray = [c \in Calls |-> 0]
    /\ relSchema = [c \in Calls |-> 0]
    /\ evState = [c \in Calls |-> "none"]
    /\ enqueued = [c \in Calls |-> <<>>]
    /\ delivered = <<>>
    /\ sent = [p \in Producers |-> 0]
    /\ DriverIdle
    /\ pushesOk = 0
    /\ popsOk = 0
    /\ ipc = "uninit"
    /\ initCap = 0
    /\ atFree = {}
    /\ plugins = <<>>
    /\ HostIdle
    /\ SideIdle

\* ZenithEngine::new: "panic" | "err" | "ok"
ZenithEngineNew(buffer_size, host_ok) ==
    IF buffer_size = 0 THEN "panic"
    ELSE IF ~host_ok THEN "err"
    ELSE "ok"

ZenithInit ==
    /\ ipc = "uninit"
    /\ \E buffer_size \in 0..MaxEngineCap, host_ok \in BOOLEAN :
         LET made == ZenithEngineNew(buffer_size, host_ok) IN
         /\ initCap' = buffer_size
         /\ ipc' = CASE made = "panic" -> "aborted"
                      [] made = "err" -> "null"
                      [] OTHER -> "handle"
         /\ crashed' = (made = "panic")
         /\ IF made = "ok"
            THEN /\ cap' = buffer_size
                 /\ queue' = ZenithRingBufferNew(buffer_size)
                 /\ running' = TRUE
                 /\ cpc' = "check"
                 /\ holders' = 2
            ELSE UNCHANGED <<cap, queue, running, cpc, holders>>
    /\ UNCHANGED <<ppc, pcall, ptail, pevent, chead, cevent, fpc, ncalls,
                   callInfo, ret, relArray, relSchema, evState, enqueued,
                   delivered, sent, driverVars, countVars, atFree, hostVars, sideVars>>

InitNext == ZenithInit \/ Next

InitSpec == NoEngine /\ [][InitNext]_vars

(***************************************************************************)
(* The plugin host.  A plugin is modelled by what its module exports as    *)
(* on_event; every plugin has a store of its own behind a Mutex of its own.*)
(***************************************************************************)

\* plugins/simple_filter: keep the even sequence numbers
on_event(source_id, seq_no) == IF seq_no % 2 = 0 THEN 1 ELSE 0

\* variant: whatever bytes are given become a plugin
load_pluginAcceptsAll(wasm_bytes) == wasm_bytes

\* WasmHost::load_plugin: Module::new fails on bytes that are no module,
\* linker.instantiate on a module whose imports the linker cannot satisfy
load_plugin(wasm_bytes) ==
    IF wasm_bytes \in {"invalid", "unlinkable"} THEN "err" ELSE wasm_bytes

\* the engine keeps the plugins it loaded in load order
RegisterPlugin(ps, plugin) == Append(ps, plugin)

\* zenith_load_plugin(engine, wasm_bytes, len)
ZenithLoadPlugin ==
    /\ ipc = "handle"
    /\ ~crashed
    /\ fpc = "none"
    /\ \E given \in {"null", "invalid", "unlinkable"} \cup PluginKinds :
         IF given = "null"
         THEN /\ lastLoad' = [given |-> given, status |-> <<-1>>]
              /\ UNCHANGED plugins
         ELSE IF load_plugin(given) = "err"
         THEN /\ lastLoad' = [given |-> given, status |-> <<-2>>]
              /\ UNCHANGED plugins
         ELSE /\ Len(plugins) < MaxPlugins
              /\ plugins' = RegisterPlugin(plugins, load_plugin(given))
              /\ lastLoad' = [given |-> given, status |-> <<0>>]
    /\ UNCHANGED <<ringVars, engineVars, driverVars, countVars, lifeVars,
                   invoked, telemetry, marked, tpc, tplug, plock, tlast, sideVars>>

\* instance.get_typed_func::<(), ()>(store, "on_event"): Ok only for an
\* export of that name whose type is () -> ()
get_typed_func(plugin) == plugin = "unit"

\* a thread calls plugin.trigger() on one of the loaded plugins
TriggerCall(t) ==
    /\ tpc[t] = "idle"
    /\ \E i \in 1..Len(plugins) :
         /\ tplug' = [tplug EXCEPT ![t] = i]
         /\ tlast' = [tlast EXCEPT ![t] = [plugin |-> i, guest |-> FALSE,
                                           result |-> "none"]]
    /\ tpc' = [tpc EXCEPT ![t] = "lock"]
    /\ UNCHANGED <<ringVars, engineVars, driverVars, countVars, lifeVars,
                   plugins, lastLoad, invoked, telemetry, marked, plock, sideVars>>

\* variant: the store is taken without waiting for the Mutex
TriggerLockNoWait(t) ==
    /\ tpc[t] = "lock"
    /\ plock' = [plock EXCEPT ![tplug[t]] = t]
    /\ tpc' = [tpc EXCEPT ![t] = "lookup"]
    /\ UNCHANGED <<ringVars, engineVars, driverVars, countVars, lifeVars,
                   plugins, lastLoad, invoked, telemetry, marked, tplug, tlast, sideVars>>

\* self.store.lock(): waits until the Mutex of this plugin is free
TriggerLock(t) ==
    /\ tpc[t] = "lock"
    /\ plock[tplug[t]] = 0
    /\ plock' = [plock EXCEPT ![tplug[t]] = t]
    /\ tpc' = [tpc EXCEPT ![t] = "lookup"]
    /\ UNCHANGED <<ringVars, engineVars, driverVars, countVars, lifeVars,
                   plugins, lastLoad, invoked, telemetry, marked, tplug, tlast, sideVars>>

\* the lookup of on_event: found, the guest function is entered; not found
\* (or of another type), trigger returns Ok(()) and the guard is dropped
TriggerLookup(t) ==
    /\ tpc[t] = "lookup"
    /\ IF get_typed_func(plugins[tplug[t]])
       THEN /\ tpc' = [tpc EXCEPT ![t] = "guest"]
            /\ tlast' = [tlast EXCEPT ![t].guest = TRUE]
            /\ UNCHANGED plock
       ELSE /\ tpc' = [tpc EXCEPT ![t] = "idle"]
            /\ tlast' = [tlast EXCEPT ![t].result = "ok"]
            /\ plock' = [plock EXCEPT ![tplug[t]] = 0]
    /\ UNCHANGED <<ringVars, engineVars, driverVars, countVars, lifeVars,
                   plugins, lastLoad, invoked, telemetry, marked, tplug, sideVars>>

\* f.call(store, ()) ends, normally or with a trap (an Err, passed on by ?);
\* trigger returns and the guard is dropped
TriggerGuest(t) ==
    /\ tpc[t] = "guest"
    /\ \E outcome \in {"ok", "err"} :
         tlast' = [tlast EXCEPT ![t].result = outcome]
    /\ tpc' = [tpc EXCEPT ![t] = "idle"]
    /\ plock' = [plock EXCEPT ![tplug[t]] = 0]
    /\ UNCHANGED <<ringVars, engineVars, driverVars, countVars, lifeVars,
                   plugins, lastLoad, invoked, telemetry, marked, tplug, sideVars>>

Trigger(t) ==
    \/ TriggerCall(t)
    \/ TriggerLock(t)
    \/ TriggerLookup(t)
    \/ TriggerGuest(t)

PluginNext == ZenithLoadPlugin \/ \E t \in Invokers : Trigger(t)

PluginSpec == Init /\ [][PluginNext]_vars

\* the registries that loading can build
Registries == UNION {[1..n -> PluginKinds] : n \in 1..MaxPlugins}

\* an engine whose plugins were loaded before the first publish
DispatchInit ==
    /\ cap \in 1..MaxEngineCap
    /\ queue = ZenithRingBufferNew(cap)
    /\ EngineInit
    /\ plugins \in Registries
    /\ DriverIdle
    /\ pushesOk = 0
    /\ popsOk = 0

DispatchSpec == DispatchInit /\ [][Next]_vars

(***************************************************************************)
(* zenith-runtime-cpu: TelemetryCollector.  Every counter is an AtomicU64; *)
(* the counters are modelled with the modulus CounterModulus in place of   *)
(* 2^64.  A call is a sequence of atomic operations; threads interleave    *)
(* between them.                                                           *)
(***************************************************************************)

\* AtomicU64::fetch_add wraps around on overflow
fetch_add(v, d) == (v + d) % CounterModulus

InReset(r) == rpc[r] \in {"reset_bytes", "reset_sum", "reset_count", "reset_max"}
Resetting == \E r \in Recorders : InReset(r)
CanRecord(r) == rpc[r] = "idle" /\ nrec < MaxRecords

\* record_event(bytes): events_processed.fetch_add(1)
RecordEventCount(r) ==
    /\ CanRecord(r)
    /\ \E bytes \in ByteSizes :
         /\ rarg' = [rarg EXCEPT ![r] = bytes]
         /\ since' = [since EXCEPT !.events = @ + 1, !.bytes = @ + bytes]
    /\ tel' = [tel EXCEPT !.events = fetch_add(@, 1)]
    /\ rpc' = [rpc EXCEPT ![r] = "event_bytes"]
    /\ nrec' = nrec + 1
    /\ overlap' = (overlap \/ Resetting)
    /\ UNCHANGED <<ringVars, engineVars, driverVars, countVars, lifeVars,
                   hostVars, schedVars, auxVars,
                   rcur>>

\* record_event(bytes): bytes_processed.fetch_add(bytes)
RecordEventBytes(r) ==
    /\ rpc[r] = "event_bytes"
    /\ tel' = [tel EXCEPT !.bytes = fetch_add(@, rarg[r])]
    /\ rpc' = [rpc EXCEPT ![r] = "idle"]
    /\ UNCHANGED <<ringVars, engineVars, driverVars, countVars, lifeVars,
                   hostVars, schedVars, auxVars,
                   rarg, rcur, nrec, since, overlap>>

Max(a, b) == IF a >= b THEN a ELSE b

\* record_latency(latency_us): latency_sum.fetch_add(latency_us)
RecordLatencySum(r) ==
    /\ CanRecord(r)
    /\ \E latency_us \in Latencies :
         /\ rarg' = [rarg EXCEPT ![r] = latency_us]
         /\ since' = [since EXCEPT !.latency_sum = @ + latency_us,
                                   !.latency_count = @ + 1,
                                   !.latency_max = Max(@, latency_us)]
         /\ tel' = [tel EXCEPT !.latency_sum = fetch_add(@, latency_us)]
    /\ rpc' = [rpc EXCEPT ![r] = "latency_count"]
    /\ nrec' = nrec + 1
    /\ overlap' = (overlap \/ Resetting)
    /\ UNCHANGED <<ringVars, engineVars, driverVars, countVars, lifeVars,
                   hostVars, schedVars, auxVars,
                   rcur>>

\* record_latency: latency_count.fetch_add(1)
RecordLatencyCount(r) ==
    /\ rpc[r] = "latency_count"
    /\ tel' = [tel EXCEPT !.latency_count = fetch_add(@, 1)]
    /\ rpc' = [rpc EXCEPT ![r] = "latency_load"]
    /\ UNCHANGED <<ringVars, engineVars, driverVars, countVars, lifeVars,
                   hostVars, schedVars, auxVars,
                   rarg, rcur, nrec, since, overlap>>

\* the loop: current_max is loaded; the call ends if latency_us <= current_max
RecordLatencyLoad(r) ==
    /\ rpc[r] = "latency_load"
    /\ rcur' = [rcur EXCEPT ![r] = tel.latency_max]
    /\ rpc' = [rpc EXCEPT ![r] =
                  IF rarg[r] <= tel.latency_max THEN "idle" ELSE "latency_cas"]
    /\ UNCHANGED <<ringVars, engineVars, driverVars, countVars, lifeVars,
                   hostVars, schedVars, auxVars,
                   tel, rarg, nrec, since, overlap>>

\* variant: a plain store in place of the compare_exchange
RecordLatencyStore(r) ==
    /\ rpc[r] = "latency_cas"
    /\ tel' = [tel EXCEPT !.latency_max = rarg[r]]
    /\ rpc' = [rpc EXCEPT ![r] = "idle"]
    /\ UNCHANGED <<ringVars, engineVars, driverVars, countVars, lifeVars,
                   hostVars, schedVars, auxVars,
                   rarg, rcur, nrec, since, overlap>>

\* the loop: compare_exchange(current_max, latency_us); on failure, again
RecordLatencyCas(r) ==
    /\ rpc[r] = "latency_cas"
    /\ IF tel.latency_max = rcur[r]
       THEN /\ tel' = [tel EXCEPT !.latency_max = rarg[r]]
            /\ rpc' = [rpc EXCEPT ![r] = "idle"]
       ELSE /\ rpc' = [rpc EXCEPT ![r] = "latency_load"]
            /\ UNCHANGED tel
    /\ UNCHANGED <<ringVars, engineVars, driverVars, countVars, lifeVars,
                   hostVars, schedVars, auxVars,
                   rarg, rcur, nrec, since, overlap>>

\* reset(): events_processed.store(0); the other stores follow one by one
ResetEvents(r) ==
    /\ CanRecord(r)
    /\ tel' = [tel EXCEPT !.events = 0]
    /\ rpc' = [rpc EXCEPT ![r] = "reset_bytes"]
    /\ nrec' = nrec + 1
    /\ since' = NoCounts
    /\ overlap' = (\E q \in Recorders \ {r} : rpc[q] # "idle")
    /\ UNCHANGED <<ringVars, engineVars, driverVars, countVars, lifeVars,
                   hostVars, schedVars, auxVars,
                   rarg, rcur>>

ResetStore(r) ==
    /\ InReset(r)
    /\ tel' = CASE rpc[r] = "reset_bytes" -> [tel EXCEPT !.bytes = 0]
                 [] rpc[r] = "reset_sum" -> [tel EXCEPT !.latency_sum = 0]
                 [] rpc[r] = "reset_count" -> [tel EXCEPT !.latency_count = 0]
                 [] OTHER -> [tel EXCEPT !.latency_max = 0]
    /\ rpc' = [rpc EXCEPT ![r] =
                 CASE rpc[r] = "reset_bytes" -> "reset_sum"
                   [] rpc[r] = "reset_sum" -> "reset_count"
                   [] rpc[r] = "reset_count" -> "reset_max"
                   [] OTHER -> "idle"]
    /\ UNCHANGED <<ringVars, engineVars, driverVars, countVars, lifeVars,
                   hostVars, schedVars, auxVars,
                   rarg, rcur, nrec, since, overlap>>

\* snapshot(), the fields the counters decide
snapshot(t) ==
    [events_processed |-> t.events,
     bytes_processed |-> t.bytes,
     avg_latency_us |-> IF t.latency_count > 0
                        THEN t.latency_sum \div t.latency_count
                        ELSE 0,
     max_latency_us |-> t.latency_max]

\* the steps that go on with a call that has begun
RecordStep(r) ==
    \/ RecordEventBytes(r)
    \/ RecordLatencyCount(r)
    \/ RecordLatencyLoad(r)
    \/ RecordLatencyCas(r)
    \/ ResetStore(r)

Record(r) ==
    \/ RecordEventCount(r)
    \/ RecordLatencySum(r)
    \/ ResetEvents(r)
    \/ RecordStep(r)

TelemetryNext == \E r \in Recorders : Record(r)

TelemetrySpec == Init /\ [][TelemetryNext]_vars

\* every recording thread is scheduled while it is inside a call
FairTelemetrySpec ==
    TelemetrySpec /\ \A r \in Recorders : WF_vars(RecordStep(r))

(***************************************************************************)
(* zenith-scheduler.  The crate declares the modules job, node, scheduler  *)
(* and state; this part follows the specification of the gang scheduler:   *)
(* a node registry with heartbeats and sweeps, a priority-ordered job      *)
(* queue, and a scheduling cycle that checks feasibility, reserves in one  *)
(* atomic commit, backfills and preempts.  Quotas and the interconnect     *)
(* graph are left out: a job asks for accelerators, CPU cores and memory   *)
(* on one host or on two.                                                  *)
(***************************************************************************)

nonSched == <<ringVars, engineVars, driverVars, countVars, lifeVars, hostVars,
              telVars, auxVars>>

Capacity == [accelerators |-> NodeAccelerators, cpu |-> NodeAccelerators,
             mem |-> NodeAccelerators]

\* what a job of the shape needs on each of its hosts
Demand(shape) ==
    CASE shape = "host8" ->
           [hosts |-> 1, accelerators |-> NodeAccelerators,
            cpu |-> NodeAccelerators, mem |-> NodeAccelerators]
      [] shape = "wide16" ->
           [hosts |-> 1, accelerators |-> 2 * NodeAccelerators,
            cpu |-> NodeAccelerators, mem |-> NodeAccelerators]
      [] OTHER ->
           [hosts |-> 2, accelerators |-> NodeAccelerators \div 2,
            cpu |-> NodeAccelerators \div 2, mem |-> NodeAccelerators \div 2]

Least(S) == CHOOSE i \in S : \A k \in S : i <= k
NodeIndex(n) == CHOOSE i \in 1..Len(NodeSeq) : NodeSeq[i] = n
RunningJobs(js) == {k \in Jobs : js[k].state = "Running"}

RECURSIVE Committed(_, _, _, _)
\* what the reservations of the jobs of S among 1..k debit on node n
Committed(r, S, n, k) ==
    IF k = 0 THEN NoDebit
    ELSE LET rest == Committed(r, S, n, k - 1)
         IN IF k \in S
            THEN [devices |-> rest.devices \cup r[k][n].devices,
                  cpu |-> rest.cpu + r[k][n].cpu,
                  mem |-> rest.mem + r[k][n].mem]
            ELSE rest

\* variant: the debits of the other jobs are not counted
FreeOnIgnoresDebits(r, S, n) ==
    [devices |-> 0..(Capacity.accelerators - 1),
     cpu |-> Capacity.cpu, mem |-> Capacity.mem]

FreeOn(r, S, n) ==
    LET used == Committed(r, S, n, MaxJobs)
    IN [devices |-> (0..(Capacity.accelerators - 1)) \ used.devices,
        cpu |-> Capacity.cpu - used.cpu,
        mem |-> Capacity.mem - used.mem]

\* topology match: the sets of Active hosts that can take the job
HostSets(nd, r, S, shape) ==
    LET d == Demand(shape)
        eligible == {n \in Nodes :
                       /\ nd[n].status = "Active"
                       /\ Cardinality(FreeOn(r, S, n).devices) >= d.accelerators
                       /\ FreeOn(r, S, n).cpu >= d.cpu
                       /\ FreeOn(r, S, n).mem >= d.mem}
    IN {H \in SUBSET eligible : Cardinality(H) = d.hosts}

Feasible(nd, r, S, shape) == HostSets(nd, r, S, shape) # {}

\* feasibility enumeration is deterministic: the hosts of lowest index
FirstHosts(Hs) ==
    CHOOSE H \in Hs :
       \A G \in Hs : \E h \in H : \A g \in G : NodeIndex(h) <= NodeIndex(g)

\* the reservation entries: on each host the free devices of lowest index
PlanOn(H, r, S, shape) ==
    LET d == Demand(shape)
    IN [n \in Nodes |->
          IF n \in H
          THEN LET free == FreeOn(r, S, n).devices
               IN [devices |-> {x \in free :
                                  Cardinality({y \in free : y < x}) < d.accelerators},
                   cpu |-> d.cpu, mem |-> d.mem]
          ELSE NoDebit]

\* variant: every placement passes for harmless
HarmlessAlways(nd, r, live, b, plan, shape) == TRUE

\* the reservation of job b does not reduce feasibility for a job of the
\* shape, whichever of the live jobs complete
Harmless(nd, r, live, b, plan, shape) ==
    LET with == [r EXCEPT ![b] = plan]
    IN \A S \in SUBSET live :
          Feasible(nd, r, S, shape) => Feasible(nd, with, S \cup {b}, shape)

Release(r, V) == [k \in Jobs |-> IF k \in V THEN NoReservation ELSE r[k]]

\* the debits of the plan on the nodes before the node of index upto
Debit(r, j, plan, upto) ==
    [r EXCEPT ![j] = [n \in Nodes |->
                        IF NodeIndex(n) < upto THEN plan[n] ELSE NoDebit]]

\* variant: the debits applied before the failure stay
RollbackKeepsDebits(before, partial, j, V) ==
    [k \in Jobs |-> IF k \in V THEN before[k] ELSE partial[k]]

\* every partial debit is undone and the victims keep their reservations
Rollback(before, partial, j, V) ==
    [k \in Jobs |->
       IF k = j THEN NoReservation
       ELSE IF k \in V THEN before[k] ELSE partial[k]]

\* the last heartbeat of the node is older than the timeout
Stale(nd, n) == nd[n].age > heartbeat_timeout_seconds

\* variant: the lower priority goes first
BeforeLowFirst(js, a, b) ==
    \/ js[a].priority < js[b].priority
    \/ /\ js[a].priority = js[b].priority
       /\ \/ js[a].boost > js[b].boost
          \/ /\ js[a].boost = js[b].boost
             /\ \/ js[a].submitted < js[b].submitted
                \/ js[a].submitted = js[b].submitted /\ a < b

\* queue order: priority, then jobs put back at the head of their band, then
\* submission timestamp, then job identifier
Before(js, a, b) ==
    \/ js[a].priority > js[b].priority
    \/ /\ js[a].priority = js[b].priority
       /\ \/ js[a].boost > js[b].boost
          \/ /\ js[a].boost = js[b].boost
             /\ \/ js[a].submitted < js[b].submitted
                \/ js[a].submitted = js[b].submitted /\ a < b

InsertAt(q, i, j) == SubSeq(q, 1, i - 1) \o <<j>> \o SubSeq(q, i, Len(q))

Enqueue(js, q, j) ==
    LET later == {i \in 1..Len(q) : Before(js, j, q[i])}
    IN InsertAt(q, IF later = {} THEN Len(q) + 1 ELSE Least(later), j)

RECURSIVE EnqueueAll(_, _, _)
EnqueueAll(js, q, V) ==
    IF V = {} THEN q
    ELSE EnqueueAll(js, Enqueue(js, q, Least(V)), V \ {Least(V)})

\* the boost that puts job j ahead of every queued job of its band
HeadBoost(js, q, j) ==
    LET band == {js[q[i]].boost : i \in {i \in 1..Len(q) :
                                          js[q[i]].priority = js[j].priority}}
    IN IF band = {} THEN 1 ELSE 1 + (CHOOSE b \in band : \A c \in band : b >= c)

Unlocked == cfg.started /\ ~cyc.active

\* the service starts with its configuration; the nodes register
SchedulerStart ==
    /\ ~cfg.started
    /\ \E b \in BOOLEAN : cfg' = [started |-> TRUE, backfill_enabled |-> b]
    /\ nodes' = [n \in Nodes |-> [status |-> "Active", age |-> 0]]
    /\ UNCHANGED <<jobs, res, jobq, cyc, nonSched>>

\* the clock advances by one heartbeat timeout; ages past two timeouts are
\* not told apart
Tick ==
    /\ cfg.started
    /\ \E n \in Nodes : nodes[n].age < 2 * heartbeat_timeout_seconds
    /\ nodes' = [n \in Nodes |->
                   [nodes[n] EXCEPT !.age =
                      IF @ < 2 * heartbeat_timeout_seconds
                      THEN @ + heartbeat_timeout_seconds ELSE @]]
    /\ UNCHANGED <<cfg, jobs, res, jobq, cyc, nonSched>>

\* heartbeat ingestion, concurrent with the cycle
Heartbeat(n) ==
    /\ cfg.started
    /\ nodes[n].age # 0
    /\ nodes' = [nodes EXCEPT ![n].age = 0]
    /\ UNCHANGED <<cfg, jobs, res, jobq, cyc, nonSched>>

\* job submission: the job is enqueued
Submit(j) ==
    /\ Unlocked
    /\ jobs[j].state = "none"
    /\ \E request \in Requests[((j - 1) % Len(Requests)) + 1] :
         LET js == [jobs EXCEPT ![j] = [state |-> "Queued",
                                        priority |-> request[1],
                                        shape |-> request[2],
                                        submitted |-> cyc.number,
                                        boost |-> 0]]
         IN /\ jobs' = js
            /\ jobq' = Enqueue(js, jobq, j)
    /\ UNCHANGED <<cfg, nodes, res, cyc, nonSched>>

\* a Running job completes; its reservation ends with it
Complete(j) ==
    /\ Unlocked
    /\ jobs[j].state = "Running"
    /\ jobs' = [jobs EXCEPT ![j].state = "Completed"]
    /\ res' = [res EXCEPT ![j] = NoReservation]
    /\ UNCHANGED <<cfg, nodes, jobq, cyc, nonSched>>

RECURSIVE SweepJobs(_, _, _, _, _)
\* the jobs from i on that hold a host that is not Active: re-placed if the
\* job is in replace and a placement exists, Failed otherwise
SweepJobs(i, nd, js, r, replace) ==
    IF i > MaxJobs THEN [jobs |-> js, res |-> r]
    ELSE IF /\ js[i].state = "Running"
            /\ \E n \in Nodes : nd[n].status # "Active" /\ r[i][n] # NoDebit
         THEN LET freed == [r EXCEPT ![i] = NoReservation]
                  Hs == HostSets(nd, freed, Jobs, js[i].shape)
              IN IF i \in replace /\ Hs # {}
                 THEN SweepJobs(i + 1, nd, js,
                                [freed EXCEPT ![i] =
                                   PlanOn(FirstHosts(Hs), freed, Jobs, js[i].shape)],
                                replace)
                 ELSE SweepJobs(i + 1, nd, [js EXCEPT ![i].state = "Failed"],
                                freed, replace)
         ELSE SweepJobs(i + 1, nd, js, r, replace)

\* the registry sweep
Sweep ==
    /\ Unlocked
    /\ LET nd == [n \in Nodes |->
                    IF nodes[n].status = "Active" /\ Stale(nodes, n)
                    THEN [nodes[n] EXCEPT !.status = "Inactive"]
                    ELSE nodes[n]]
       IN /\ nodes' = nd
          /\ \E replace \in SUBSET RunningJobs(jobs) :
               LET out == SweepJobs(1, nd, jobs, res, replace)
               IN jobs' = out.jobs /\ res' = out.res
    /\ UNCHANGED <<cfg, jobq, cyc, nonSched>>

\* a scheduling cycle begins: it takes the writer lock
CycleBegin ==
    /\ Unlocked
    /\ jobq # <<>>
    /\ cyc.number < MaxCycles
    /\ cyc' = [NoCycle EXCEPT !.active = TRUE, !.number = cyc.number + 1,
                              !.queued0 = {jobq[i] : i \in 1..Len(jobq)}]
    /\ UNCHANGED <<cfg, nodes, jobs, res, jobq, nonSched>>

\* the queued jobs the cycle has not considered yet, in queue order
Candidates == SelectSeq(jobq, LAMBDA j : j \notin cyc.considered)

\* variant: any running job of lower priority is a victim
VictimSetsNoMargin(j) ==
    LET cand == {v \in RunningJobs(jobs) : jobs[j].priority > jobs[v].priority}
        ok(V) == Feasible(nodes, Release(res, V), Jobs, jobs[j].shape)
    IN {V \in SUBSET cand :
          /\ V # {}
          /\ ok(V)
          /\ \A W \in SUBSET V : W # V => ~ok(W)}

\* the minimal sets of running jobs, each below the job by the margin, whose
\* release makes the job feasible
VictimSets(j) ==
    LET cand == {v \in RunningJobs(jobs) :
                   jobs[j].priority >= jobs[v].priority + preemption_margin}
        ok(V) == Feasible(nodes, Release(res, V), Jobs, jobs[j].shape)
    IN {V \in SUBSET cand :
          /\ V # {}
          /\ ok(V)
          /\ \A W \in SUBSET V : W # V => ~ok(W)}

\* the next candidate is considered: feasibility against the registry
CheckFeasibility ==
    /\ cyc.active
    /\ cyc.cur = 0
    /\ Candidates # <<>>
    /\ cyc.attempts < max_schedule_batch
    /\ LET j == Head(Candidates)
           shape == jobs[j].shape
           Hs == HostSets(nodes, res, Jobs, shape)
           seen == [cyc EXCEPT !.considered = @ \cup {j}, !.attempts = @ + 1]
           Place(plan, V) ==
               /\ jobs' = [jobs EXCEPT ![j].state = "Placing"]
               /\ jobq' = SelectSeq(jobq, LAMBDA x : x # j)
               /\ cyc' = [seen EXCEPT !.cur = j, !.plan = plan, !.victims = V]
           Pass ==
               /\ cyc' = [seen EXCEPT
                            !.blocked = IF @ = 0 THEN j ELSE @,
                            !.passed = @ \cup {j},
                            !.considered =
                                IF cfg.backfill_enabled THEN @ ELSE Jobs]
               /\ UNCHANGED <<jobs, jobq>>
       IN IF cyc.blocked = 0
          THEN IF Hs # {}
               THEN Place(PlanOn(FirstHosts(Hs), res, Jobs, shape), {})
               ELSE IF VictimSets(j) # {}
                    THEN \E V \in VictimSets(j) :
                           LET r == Release(res, V)
                           IN Place(PlanOn(FirstHosts(HostSets(nodes, r, Jobs, shape)),
                                           r, Jobs, shape), V)
                    ELSE Pass
          ELSE LET harmless ==
                     {H \in Hs :
                        \A a \in cyc.passed :
                           Harmless(nodes, res, RunningJobs(jobs), j,
                                    PlanOn(H, res, Jobs, shape), jobs[a].shape)}
               IN IF harmless # {}
                  THEN Place(PlanOn(FirstHosts(harmless), res, Jobs, shape), {})
                  ELSE Pass
    /\ UNCHANGED <<cfg, nodes, res, nonSched>>

\* gang reservation: the debits are applied node by node; a contributing
\* node whose heartbeat has lapsed aborts the commit
Commit ==
    /\ cyc.active
    /\ cyc.cur # 0
    /\ LET j == cyc.cur
           lapsed == {i \in 1..Len(NodeSeq) :
                        /\ cyc.plan[NodeSeq[i]] # NoDebit
                        /\ \/ Stale(nodes, NodeSeq[i])
                           \/ nodes[NodeSeq[i]].status # "Active"}
           released == Release(res, cyc.victims)
           done == [cyc EXCEPT !.cur = 0, !.plan = NoReservation,
                               !.victims = {}]
       IN IF lapsed = {}
          THEN LET js == [k \in Jobs |->
                            IF k = j THEN [jobs[k] EXCEPT !.state = "Running"]
                            ELSE IF k \in cyc.victims
                                 THEN [jobs[k] EXCEPT !.state = "Queued"]
                                 ELSE jobs[k]]
               IN /\ res' = Debit(released, j, cyc.plan, Len(NodeSeq) + 1)
                  /\ jobs' = js
                  /\ jobq' = EnqueueAll(js, jobq, cyc.victims)
                  /\ cyc' = done
          ELSE LET js == [jobs EXCEPT ![j].state = "Queued",
                                      ![j].boost = HeadBoost(jobs, jobq, j)]
               IN /\ res' = Rollback(res, Debit(released, j, cyc.plan,
                                                Least(lapsed)),
                                     j, cyc.victims)
                  /\ jobs' = js
                  /\ jobq' = Enqueue(js, jobq, j)
                  /\ cyc' = [done EXCEPT
                               !.blocked = IF @ = 0 THEN j ELSE @,
                               !.passed = @ \cup {j},
                               !.aborted = TRUE,
                               !.considered =
                                   IF cfg.backfill_enabled THEN @ ELSE Jobs]
    /\ UNCHANGED <<cfg, nodes, nonSched>>

\* the cycle ends and releases the writer lock
CycleEnd ==
    /\ cyc.active
    /\ cyc.cur = 0
    /\ Candidates = <<>> \/ cyc.attempts >= max_schedule_batch
    /\ cyc' = [NoCycle EXCEPT !.number = cyc.number]
    /\ UNCHANGED <<cfg, nodes, jobs, res, jobq, nonSched>>

SchedNext ==
    \/ SchedulerStart
    \/ Tick
    \/ \E n \in Nodes : Heartbeat(n)
    \/ \E j \in Jobs : Submit(j)
    \/ \E j \in Jobs : Complete(j)
    \/ Sweep
    \/ CycleBegin
    \/ CheckFeasibility
    \/ Commit
    \/ CycleEnd

SchedSpec == Init /\ [][SchedNext]_vars

(***************************************************************************)
(* Sequential driver: one thread makes push and pop calls on a new buffer. *)
(* The sequence number of a pushed event is the number of the call.        *)
(***************************************************************************)
SeqInit ==
    /\ cap \in 1..MaxCap
    /\ queue = ZenithRingBufferNew(cap)
    /\ EngineInit
    /\ plugins = <<>>
    /\ DriverIdle
    /\ pushesOk = 0
    /\ popsOk = 0

SeqPush ==
    /\ opCount < MaxOps
    /\ \E s \in Sources :
         LET event == ZenithEvent(s, opCount + 1, 0)
             r == push(cap, queue, event)
             m == RefPush(cap, refq, event)
         IN  /\ queue' = r.q
             /\ lastRet' = r.ret
             /\ lastArg' = event
             /\ refq' = m.q
             /\ refRet' = m.ret
             /\ pushesOk' = IF r.ret = "Ok" THEN pushesOk + 1 ELSE pushesOk
    /\ lastOp' = "push"
    /\ opCount' = opCount + 1
    /\ UNCHANGED <<cap, engineVars, popsOk,
                   lifeVars, hostVars, sideVars>>

SeqPop ==
    /\ opCount < MaxOps
    /\ LET r == pop(cap, queue)
           m == RefPop(refq)
       IN  /\ queue' = r.q
           /\ lastRet' = r.ret
           /\ refq' = m.q
           /\ refRet' = m.ret
           /\ popsOk' = IF r.ret # NoEvent THEN popsOk + 1 ELSE popsOk
    /\ lastOp' = "pop"
    /\ lastArg' = NoEvent
    /\ opCount' = opCount + 1
    /\ UNCHANGED <<cap, engineVars, pushesOk,
                   lifeVars, hostVars, sideVars>>

SeqNext == SeqPush \/ SeqPop

SeqSpec == SeqInit /\ [][SeqNext]_vars

(***************************************************************************)
(* Concurrent throughput test on the ring buffer: every producer thread    *)
(* pushes its items in order and tries again while the push fails, the     *)
(* consumer thread pops until it has received them all and tries again     *)
(* while the pop returns None.  Item k of producer p is the event with     *)
(* source p and sequence number k.                                         *)
(***************************************************************************)
TotalItems == Cardinality(Producers) * MaxItems

MpscInit ==
    /\ cap \in 1..MaxEngineCap
    /\ queue = ZenithRingBufferNew(cap)
    /\ ppc = [p \in Producers |-> "tpush"]
    /\ pcall = [p \in Producers |-> 0]
    /\ ptail = [p \in Producers |-> 0]
    /\ pevent = [p \in Producers |-> NoEvent]
    /\ cpc = "tpop"
    /\ chead = 0
    /\ cevent = NoEvent
    /\ running = TRUE
    /\ fpc = "none"
    /\ holders = 1 + Cardinality(Producers)
    /\ crashed = FALSE
    /\ ncalls = 0
    /\ callInfo = [c \in Calls |-> NoCall]
    /\ ret = [c \in Calls |-> NoRet]
    /\ relArray = [c \in Calls |-> 0]
    /\ relSchema = [c \in Calls |-> 0]
    /\ evState = [c \in Calls |-> "none"]
    /\ enqueued = [c \in Calls |-> <<>>]
    /\ delivered = <<>>
    /\ sent = [p \in Producers |-> 0]
    /\ DriverIdle
    /\ pushesOk = 0
    /\ popsOk = 0
    /\ ipc = "handle"
    /\ initCap = cap
    /\ atFree = {}
    /\ plugins = <<>>
    /\ HostIdle
    /\ SideIdle

testRest == <<pcall, cevent, running, fpc, holders, crashed, ncalls, callInfo,
              ret, relArray, relSchema, evState, enqueued, driverVars,
             lifeVars, hostVars, sideVars>>

\* try_push claims a slot for the next item
TestPushClaim(p) ==
    /\ ppc[p] = "tpush"
    /\ PushTry(cap, queue) = "claim"
    /\ queue' = PushClaim(cap, queue)
    /\ ptail' = [ptail EXCEPT ![p] = queue.tail]
    /\ pevent' = [pevent EXCEPT ![p] = ZenithEvent(p, sent[p] + 1, 0)]
    /\ ppc' = [ppc EXCEPT ![p] = "twrite"]
    /\ pushesOk' = pushesOk + 1
    /\ UNCHANGED <<cap, cpc, chead, delivered, sent, popsOk, testRest>>

\* try_push fails on a full queue: spin_loop, then the same item again
TestPushFull(p) ==
    /\ ppc[p] = "tpush"
    /\ PushTry(cap, queue) = "full"
    /\ UNCHANGED vars

\* the item is written into the claimed slot; the loop goes on to the next item
TestPushWrite(p) ==
    /\ ppc[p] = "twrite"
    /\ queue' = PushWrite(cap, queue, ptail[p], pevent[p])
    /\ pevent' = [pevent EXCEPT ![p] = NoEvent]
    /\ sent' = [sent EXCEPT ![p] = @ + 1]
    /\ ppc' = [ppc EXCEPT ![p] = IF sent[p] + 1 < MaxItems THEN "tpush" ELSE "tdone"]
    /\ UNCHANGED <<cap, ptail, cpc, chead, delivered, countVars, testRest>>

\* try_pop claims the slot at head
TestPopClaim ==
    /\ cpc = "tpop"
    /\ PopTry(cap, queue) = "claim"
    /\ queue' = PopClaim(cap, queue)
    /\ chead' = queue.head
    /\ cpc' = "tread"
    /\ popsOk' = popsOk + 1
    /\ UNCHANGED <<cap, ppc, ptail, pevent, delivered, sent, pushesOk, testRest>>

\* try_pop returns None: spin_loop, then again
TestPopEmpty ==
    /\ cpc = "tpop"
    /\ PopTry(cap, queue) = "empty"
    /\ UNCHANGED vars

\* the item is moved out of the slot and counted; the loop ends with the last one
TestPopRead ==
    /\ cpc = "tread"
    /\ delivered' = Append(delivered, queue.value[Index(cap, chead)])
    /\ queue' = PopRead(cap, queue, chead)
    /\ cpc' = IF Len(delivered) + 1 < TotalItems THEN "tpop" ELSE "tdone"
    /\ UNCHANGED <<cap, ppc, ptail, pevent, chead, sent, countVars, testRest>>

TestProducer(p) == TestPushClaim(p) \/ TestPushFull(p) \/ TestPushWrite(p)

TestConsumer == TestPopClaim \/ TestPopEmpty \/ TestPopRead

MpscNext == (\E p \in Producers : TestProducer(p)) \/ TestConsumer

\* every thread of the test keeps being scheduled
FairMpscSpec ==
    /\ MpscInit
    /\ [][MpscNext]_vars
    /\ \A p \in Producers : WF_vars(TestProducer(p))
    /\ WF_vars(TestConsumer)

(***************************************************************************)
(* Properties of the ring buffer under the sequential driver (SeqSpec).    *)
(***************************************************************************)
SeqPushStep == lastOp' = "push" /\ opCount' = opCount + 1

\* C1: on a new buffer of capacity N with no pop so far, each of the first N
\* pushes succeeds and the push after N successful ones returns BufferFull and
\* leaves the queued events and their order as they were; a push succeeds
\* whenever the occupancy is below N, and then appends its event.
C1_PushUntilFull ==
    [][SeqPushStep =>
         /\ (popsOk = 0 /\ pushesOk < cap => lastRet' = "Ok")
         /\ (popsOk = 0 /\ pushesOk = cap =>
               /\ lastRet' = "BufferFull"
               /\ Contents(cap, queue') = Contents(cap, queue))
         /\ (len(cap, queue) < cap =>
               /\ lastRet' = "Ok"
               /\ Contents(cap, queue') = Append(Contents(cap, queue), lastArg'))
       ]_vars

C1_Witness ==
    /\ cap = 3
    /\ popsOk = 0
    /\ pushesOk = cap
    /\ lastOp = "push"
    /\ lastRet = "BufferFull"

\* C3: every call of a sequential run of pushes and pops returns what the
\* reference bounded FIFO of the same capacity returns (Ok or BufferFull for a
\* push; the oldest queued event, with the source id and sequence number it was
\* pushed with, or None for a pop), also after the counters have wrapped.
C3_MatchesReferenceFifo == lastRet = refRet

\* scenario S1: N = 4, push 1..4, pop twice, push twice, a push that fails, pop
\* four times; the last pop returns the event of the eighth call
C3_Witness ==
    /\ cap = 4
    /\ opCount = 13
    /\ pushesOk = 6
    /\ popsOk = 6
    /\ lastOp = "pop"
    /\ lastRet = ZenithEvent(1, 8, 0)
    /\ Lap(cap, queue.head) > 0

(***************************************************************************)
(* Properties of the ring buffer under concurrent pushes (FairMpscSpec).   *)
(***************************************************************************)
Times(e) == Cardinality({i \in 1..Len(delivered) : delivered[i] = e})

\* C4: with concurrent producers and one consumer, no item is received twice
\* and every item received is one whose push had succeeded; when the producers
\* retry on full and the consumer retries on empty, eventually every item has
\* been received, each exactly once.
C4_ExactlyOnce ==
    /\ [](\A i \in 1..Len(delivered) :
            /\ Times(delivered[i]) = 1
            /\ delivered[i].src \in Producers
            /\ delivered[i].seq \in 1..sent[delivered[i].src])
    /\ <>[](\A p \in Producers : \A k \in 1..MaxItems :
              Times(ZenithEvent(p, k, 0)) = 1)

C4_Witness ==
    /\ cap = 1
    /\ Len(delivered) = TotalItems
    /\ delivered[1].src # delivered[2].src
    /\ delivered[2].src # delivered[3].src

(***************************************************************************)
(* Properties of the engine (Spec).                                        *)
(***************************************************************************)
Delivered(c) == \E i \in 1..Len(delivered) : delivered[i].payload = c
CallerOf(e) == callInfo[e.payload].caller

\* C2: the consumer pops the events of one producer in the order that producer
\* pushed them: two popped events of the same producer appear in the order of
\* their calls, and an event is popped only after every event the same producer
\* pushed successfully before it.
C2_PerProducerFifo ==
    /\ \A i, j \in 1..Len(delivered) :
         i < j /\ CallerOf(delivered[i]) = CallerOf(delivered[j])
           => delivered[i].payload < delivered[j].payload
    /\ \A c1, c2 \in Calls :
         /\ c1 < c2
         /\ callInfo[c1].caller = callInfo[c2].caller
         /\ ret[c1] = <<0>>
         /\ Delivered(c2)
         => Delivered(c1)

C2_Witness ==
    /\ Len(delivered) = 3
    /\ CallerOf(delivered[1]) = CallerOf(delivered[3])
    /\ CallerOf(delivered[1]) # CallerOf(delivered[2])

\* C5: the occupancy len() reports is between 0 and N and equals the number of
\* pushes that succeeded minus the number of pops that returned an event (each
\* counted when its slot is claimed); is_empty() is true exactly when it is 0.
C5_Occupancy ==
    /\ len(cap, queue) \in 0..cap
    /\ len(cap, queue) = pushesOk - popsOk
    /\ is_empty(cap, queue) <=> len(cap, queue) = 0

C5_Witness ==
    /\ cap = 2
    /\ len(cap, queue) = cap
    /\ popsOk = 1
    /\ pushesOk = 3

\* C6: for every publish call that returned 0, the schema's release has been
\* invoked once and the array's release at most once: not while the event is
\* queued or held by the consumer, once when the event has been destroyed, and
\* every such event has been destroyed once the queue has been torn down.
C6_ReleaseOnce ==
    /\ \A c \in Calls :
         ret[c] = <<0>> =>
           /\ relSchema[c] = 1
           /\ evState[c] \in {"queued", "popped", "destroyed"}
           /\ evState[c] \in {"queued", "popped"} => relArray[c] = 0
           /\ evState[c] = "destroyed" => relArray[c] = 1
           /\ holders = 0 => evState[c] = "destroyed"
    /\ cevent.payload # 0 => relArray[cevent.payload] = 0
    /\ holders > 0 =>
         \A i \in 1..len(cap, queue) :
            LET e == Contents(cap, queue)[i] IN
            e.payload # 0 => relArray[e.payload] = 0

C6_Witness ==
    /\ holders = 0
    /\ \E c1, c2 \in Calls :
         /\ ret[c1] = <<0>> /\ ret[c2] = <<0>>
         /\ relArray[c1] = 1 /\ relArray[c2] = 1
         /\ Delivered(c1)
         /\ ~Delivered(c2)

\* C7: a publish call with non-null arguments and a malformed descriptor
\* (descriptors from_ffi rejects, or a root type that is no struct) returns -4,
\* enqueues nothing, does not bring the caller down, and both release callbacks
\* have been invoked once when it returns.
C7_MalformedReturnsMinus4 ==
    \A c \in Calls :
       callInfo[c].kind \in {"invalid", "nonstruct"} =>
         /\ ret[c] = <<-4>>
         /\ enqueued[c] = <<>>
         /\ ppc[callInfo[c].caller] # "aborted"
         /\ relArray[c] = 1
         /\ relSchema[c] = 1

\* C8: a publish call with valid descriptors that finds the ring buffer full
\* returns -2 and leaves the queue as it was, and -2 is returned only then;
\* every call that returned an error status after the handoff (-2, -4) has had
\* each of its descriptors released once and has enqueued nothing.
C8_FullReturnsMinus2 ==
    /\ [](\A c \in Calls :
            ret[c] \in {<<-2>>, <<-4>>} =>
              /\ relArray[c] = 1
              /\ relSchema[c] = 1
              /\ enqueued[c] = <<>>
              /\ evState[c] = "destroyed")
    /\ [][\A p \in Producers :
            ppc[p] = "push" /\ ppc'[p] # "push" =>
              /\ len(cap, queue) = cap =>
                   /\ ret'[pcall[p]] = <<-2>>
                   /\ queue' = queue
                   /\ relArray'[pcall[p]] = 1
                   /\ relSchema'[pcall[p]] = 1
              /\ ret'[pcall[p]] = <<-2>> => len(cap, queue) = cap
         ]_vars

C8_Witness ==
    /\ cap = 2
    /\ \E c \in Calls :
         /\ ret[c] = <<-2>>
         /\ relArray[c] = 1
         /\ relSchema[c] = 1
         /\ len(cap, queue) = cap

\* C9: a publish call with a null handle, array pointer or schema pointer
\* returns -1 and changes nothing: no descriptor is taken over, no release
\* callback is ever invoked for it, nothing is enqueued and the step leaves the
\* ring buffer and every other call's descriptors and events as they were.
C9_NullReturnsMinus1 ==
    /\ [](\A c \in Calls :
            callInfo[c].kind = "null" =>
              /\ ret[c] = <<-1>>
              /\ evState[c] = "none"
              /\ relArray[c] = 0
              /\ relSchema[c] = 0
              /\ enqueued[c] = <<>>)
    /\ [][ncalls' = ncalls + 1 /\ callInfo'[ncalls'].kind = "null" =>
            /\ ret'[ncalls'] = <<-1>>
            /\ UNCHANGED <<ringVars, relArray, relSchema, evState, enqueued,
                           delivered, sent, ppc, pevent, crashed>>
         ]_vars

C9_Witness ==
    \E c \in Calls :
       /\ c > 1
       /\ callInfo[c].kind = "null"
       /\ ret[c] = <<-1>>
       /\ len(cap, queue) > 0

\* C10: every publish call that has ended has returned 0, -1, -2 or -4; it
\* returned 0 exactly when it enqueued one event, which carries the source id
\* and the sequence number of the call, and a call that returned another
\* status enqueued nothing.
InProgress(c) == \E p \in Producers : pcall[p] = c /\ ppc[p] \in {"push", "write"}

C10_PublishStatus ==
    \A c \in 1..ncalls :
       ~InProgress(c) =>
         /\ ret[c] \in {<<0>>, <<-1>>, <<-2>>, <<-4>>}
         /\ ret[c] = <<0>> <=>
              /\ Len(enqueued[c]) = 1
              /\ enqueued[c][1].src = callInfo[c].src
              /\ enqueued[c][1].seq = callInfo[c].seq
         /\ ret[c] # <<0>> => enqueued[c] = <<>>

\* C11 (as claimed): publish never waits: in every state a publish call that
\* has reached its push can take a step of its own, whatever the consumer and
\* the other producers are doing.
C11_NeverWaits ==
    \A p \in Producers : ppc[p] = "push" => PushTry(cap, queue) # "retry"

MidOperation(p) ==
    \/ cpc = "read"
    \/ \E q \in Producers \ {p} : ppc[q] = "write"

\* C11 (amended): a publish call that has reached its push can take a step of
\* its own (claim a slot, or return -2 because the buffer is full) in every
\* state in which no other thread is between claiming a slot and storing that
\* slot's stamp: a full buffer and a consumer that is parked, dispatching or
\* gone do not make it wait.  It finds the buffer full only when the occupancy
\* is N.
C11_WaitsOnlyForMidOperation ==
    \A p \in Producers :
       ppc[p] = "push" =>
         /\ PushTry(cap, queue) = "retry" => MidOperation(p)
         /\ PushTry(cap, queue) = "full" => len(cap, queue) = cap
         /\ len(cap, queue) = cap /\ ~MidOperation(p) => PushTry(cap, queue) = "full"

\* the buffer is full, the consumer is busy with an event it popped earlier
C11_Witness ==
    \E p \in Producers :
       /\ ppc[p] = "push"
       /\ cpc = "dispatch"
       /\ len(cap, queue) = cap
       /\ PushTry(cap, queue) = "full"

SameSource(i, j) == delivered[i].src = delivered[j].src

\* C12 (as claimed): in every execution the sequence numbers of the events
\* popped by the consumer are strictly increasing per source id.
C12_StrictlyIncreasing ==
    \A i, j \in 1..Len(delivered) :
       i < j /\ SameSource(i, j) => delivered[i].seq < delivered[j].seq

\* every producer thread has handed in strictly increasing sequence numbers
CallersIncrease ==
    \A c1, c2 \in 1..ncalls :
       /\ c1 < c2
       /\ callInfo[c1].kind = "struct"
       /\ callInfo[c2].kind = "struct"
       /\ callInfo[c1].src = callInfo[c2].src
       => callInfo[c1].seq < callInfo[c2].seq

\* C12 (amended): when every source is published by one producer thread that
\* hands in strictly increasing sequence numbers, the sequence numbers of the
\* events popped by the consumer are strictly increasing per source id.
C12_IncreasingIfCallersIncrease ==
    CallersIncrease => C12_StrictlyIncreasing

C12_Witness ==
    /\ CallersIncrease
    /\ Len(delivered) = 3
    /\ SameSource(1, 3)
    /\ ~SameSource(1, 2)
    /\ delivered[1].seq < delivered[3].seq

\* C14: when zenith_free has returned the consumer thread has exited.
C14_FreeJoinsConsumer == fpc = "done" => cpc = "exited"

\* C13 (safety part): for every capacity value zenith_init returns null or a
\* handle; behind a handle the ring buffer has exactly `capacity` slots and
\* the consumer thread runs until zenith_free is called.
C13_InitNullOrHandle ==
    /\ ipc \in {"uninit", "null", "handle"}
    /\ ipc = "null" => cpc = "unstarted"
    /\ ipc = "handle" =>
         /\ cap = initCap
         /\ DOMAIN queue.stamp = 0..(initCap - 1)
         /\ fpc = "none" /\ ~crashed => cpc \in {"check", "pop", "read", "dispatch"}

\* C15: cooperative shutdown.  The consumer looks at the flag between events:
\* a check that finds it cleared is followed by the exit, never by a pop;
\* once exited the thread pops and dispatches nothing; the exit leaves the
\* queued events where they are; and once the flag is cleared the loop does
\* terminate.
C15_CooperativeShutdown ==
    /\ [][(~running /\ cpc = "check") => cpc' \in {"check", "exited"}]_vars
    /\ [][cpc = "exited" =>
            /\ cpc' = "exited"
            /\ popsOk' = popsOk
            /\ delivered' = delivered]_vars
    /\ [][(cpc # "exited" /\ cpc' = "exited") =>
            /\ ~running
            /\ queue' = queue
            /\ delivered' = delivered]_vars
    /\ (~running ~> cpc = "exited")

\* the consumer is gone and events are still queued in the live buffer
C15_Witness ==
    /\ cpc = "exited"
    /\ fpc = "shutdown"
    /\ len(cap, queue) = 2

PoppedAfterFree == {c \in atFree : Delivered(c)}

\* C16 (as claimed): every event that was in the ring buffer when zenith_free
\* was called is destroyed during teardown (not popped by the consumer), its
\* release callback invoked once and never twice.
C16_DestroyedDuringTeardown ==
    \A c \in atFree :
       /\ ~Delivered(c)
       /\ relArray[c] <= 1
       /\ holders = 0 => relArray[c] = 1

\* C16 (amended): every event that was in the ring buffer when zenith_free
\* was called is destroyed exactly once, its release callback invoked exactly
\* once: at most one of them by the consumer, which pops it in the iteration
\* it had begun before the flag was cleared, every other one at teardown and
\* not before.  Teardown does happen after free is called, when the last
\* holder of the buffer has dropped it.
C16_QueuedDestroyedOnce ==
    /\ [](\A c \in atFree :
            /\ relArray[c] <= 1
            /\ relArray[c] = 1 <=> evState[c] = "destroyed"
            /\ holders = 0 => relArray[c] = 1
            /\ holders > 0 /\ ~Delivered(c) => relArray[c] = 0)
    /\ [](Cardinality(PoppedAfterFree) <= 1)
    /\ (fpc # "none" ~> holders = 0)

\* two events were queued at the free call: the consumer took one, teardown
\* the other
C16_Witness ==
    /\ holders = 0
    /\ \E c1, c2 \in atFree :
         /\ Delivered(c1)
         /\ ~Delivered(c2)
         /\ relArray[c1] = 1
         /\ relArray[c2] = 1

\* the events whose dispatch by the consumer has finished
Dispatched == {k \in 1..Len(delivered) : evState[delivered[k].payload] = "destroyed"}
InvokedFor(e) == SelectSeq(invoked, LAMBDA r : r.event = e.payload)
ExpectedFor(e) ==
    [i \in 1..Len(plugins) |->
        [plugin |-> i, event |-> e.payload, source_id |-> e.src, seq_no |-> e.seq]]

\* C17: for every event the consumer has popped and dispatched, the on_event
\* of each loaded plugin was invoked exactly once, in load order, with the
\* event's source id and sequence number.
C17_DispatchInvokesPlugins ==
    \A k \in Dispatched : InvokedFor(delivered[k]) = ExpectedFor(delivered[k])

\* no plugin with the simple_filter callback returns zero for the event
Kept(e) ==
    \A i \in 1..Len(plugins) :
       plugins[i] = "canonical" => on_event(e.src, e.seq) # 0

\* C18: a dispatched event is marked dropped exactly when a plugin's on_event
\* returned zero and kept otherwise; telemetry counts every dispatched event
\* as processed and the kept ones as accepted.
C18_DroppedAndCounted ==
    /\ \A k \in Dispatched :
          marked[delivered[k].payload] =
             IF Kept(delivered[k]) THEN "kept" ELSE "dropped"
    /\ telemetry.processed = Cardinality(Dispatched)
    /\ telemetry.accepted = Cardinality({k \in Dispatched : Kept(delivered[k])})

Finished(t) == tpc[t] = "idle" /\ tlast[t].plugin # 0

\* C19: a module without on_event is loaded with status 0, and a trigger of
\* such a plugin returns Ok without entering guest code; a trigger of a plugin
\* that exports on_event(source_id, seq_no) -> i32 enters that export.
C19_PassiveOrCalled ==
    /\ lastLoad.given = "passive" => lastLoad.status = <<0>>
    /\ \A t \in Invokers :
          Finished(t) =>
            /\ plugins[tlast[t].plugin] = "passive" =>
                  ~tlast[t].guest /\ tlast[t].result = "ok"
            /\ plugins[tlast[t].plugin] = "canonical" => tlast[t].guest

InGuest(i) == {t \in Invokers : tpc[t] = "guest" /\ tplug[t] = i}
HoldsLock(t) == tpc[t] \in {"lookup", "guest"}

\* C20: at most one thread is inside the guest code of a plugin instance at
\* any time; a thread holds the instance's lock from before the lookup until
\* the call ends, and the lock is free when no call holds it.
C20_SerializedPerInstance ==
    /\ \A i \in 1..MaxPlugins : Cardinality(InGuest(i)) <= 1
    /\ \A t \in Invokers : HoldsLock(t) => plock[tplug[t]] = t
    /\ \A i \in 1..MaxPlugins :
          plock[i] # 0 => HoldsLock(plock[i]) /\ tplug[plock[i]] = i

\* one thread is inside plugin 1, another waits for plugin 1's lock, and a
\* third is inside plugin 2 at the same time
C20_Witness ==
    \E t1, t2, t3 \in Invokers :
       /\ tpc[t1] = "guest" /\ tplug[t1] = 1
       /\ tpc[t2] = "lock" /\ tplug[t2] = 1
       /\ tpc[t3] = "guest" /\ tplug[t3] = 2

\* C21: every loaded plugin is invoked for every dispatched event, and when
\* that invocation traps the event is marked dropped and nothing else
\* happens: the trigger call returns an error, the plugin's lock is free
\* again and the process is not brought down.
C21_TrapOnlyDropsEvent ==
    /\ \A t \in Invokers :
          Finished(t) /\ tlast[t].result = "err" =>
             plock[tlast[t].plugin] # t /\ ~crashed
    /\ \A k \in Dispatched, i \in 1..Len(plugins) :
          \E n \in 1..Len(invoked) :
             /\ invoked[n].plugin = i
             /\ invoked[n].event = delivered[k].payload
             /\ invoked[n].result = "err" =>
                   marked[delivered[k].payload] = "dropped"

FailedLoads == {"null", "invalid", "unlinkable"}

\* C22: a zenith_load_plugin call that fails returns a negative status, -1
\* for a null argument, and changes nothing else: the ring buffer, the
\* consumer, the calls in progress and the plugins loaded before are as they
\* were.
C22_FailedLoadIsLocal ==
    [][lastLoad' # lastLoad /\ lastLoad'.given \in FailedLoads =>
          /\ lastLoad'.status[1] < 0
          /\ lastLoad'.given = "null" => lastLoad'.status = <<-1>>
          /\ UNCHANGED <<ringVars, engineVars, lifeVars, plugins, invoked,
                         telemetry, marked, tpc, tplug, plock, tlast>>]_vars

\* a load has just failed while two plugins are loaded and one is in use
C22_Witness ==
    /\ lastLoad.given \in {"invalid", "unlinkable"}
    /\ lastLoad.status = <<-2>>
    /\ Len(plugins) = 2
    /\ \E t \in Invokers : tpc[t] = "guest"

Quiescent == \A r \in Recorders : rpc[r] = "idle"

\* C29: a snapshot taken after all the calls made since the last
\* reset have returned reports the number of record_event calls, the sum of
\* their bytes and floor(sum of latencies / number of record_latency calls),
\* or 0 when no latency was recorded.
C29_SnapshotExact ==
    Quiescent /\ ~overlap =>
       /\ snapshot(tel).events_processed = since.events
       /\ snapshot(tel).bytes_processed = since.bytes
       /\ snapshot(tel).avg_latency_us =
             IF since.latency_count = 0 THEN 0
             ELSE since.latency_sum \div since.latency_count

ResetsMax == \E r \in Recorders : rpc[r] = "reset_max" /\ rpc'[r] = "idle"

\* C30: after the record_latency calls made since the last reset have
\* returned, max_latency_us is the largest latency recorded; no step other
\* than a reset's store makes the stored maximum smaller; and the loop of
\* every call ends.
C30_MaxLatency ==
    /\ [](Quiescent /\ ~overlap =>
            snapshot(tel).max_latency_us = since.latency_max)
    /\ [][~ResetsMax => tel'.latency_max >= tel.latency_max]_vars
    /\ \A r \in Recorders :
          rpc[r] \in {"latency_load", "latency_cas"} ~> rpc[r] = "idle"

\* three latencies were recorded; one thread loaded a maximum that another
\* thread has replaced since by a larger value than its own
C30_Witness ==
    /\ Quiescent
    /\ ~overlap
    /\ since.latency_count = 3
    /\ \E r \in Recorders :
         rcur[r] < rarg[r] /\ rarg[r] < tel.latency_max

\* C23: on every node the CPU cores, the memory and the accelerators
\* committed by the reservations stay within the node's capacity, and no
\* device index is held by two reservations.
C23_WithinCapacity ==
    \A n \in Nodes :
       /\ Committed(res, Jobs, n, MaxJobs).cpu <= Capacity.cpu
       /\ Committed(res, Jobs, n, MaxJobs).mem <= Capacity.mem
       /\ Committed(res, Jobs, n, MaxJobs).devices
             \subseteq 0..(Capacity.accelerators - 1)
       /\ \A j, k \in Jobs :
             j # k => res[j][n].devices \cap res[k][n].devices = {}

\* two running jobs share a node and hold all of its accelerators and cores
C23_Witness ==
    \E n \in Nodes : \E j, k \in Jobs :
       /\ j # k
       /\ jobs[j].state = "Running" /\ jobs[k].state = "Running"
       /\ res[j][n] # NoDebit /\ res[k][n] # NoDebit
       /\ Committed(res, Jobs, n, MaxJobs).cpu = Capacity.cpu
       /\ Cardinality(Committed(res, Jobs, n, MaxJobs).devices)
             = Capacity.accelerators

Holds(j) == {n \in Nodes : res[j][n] # NoDebit}

\* C24: a Running job holds its whole reservation and any other job holds
\* nothing; a placement attempt ends either with the planned debits applied on
\* every node and the job Running, or with no reservation, node or other job
\* changed and the job Queued at the head of its priority band; the second
\* is what happens when the heartbeat of a contributing node has lapsed.
C24_GangAtomic ==
    /\ [](\A j \in Jobs :
            IF jobs[j].state = "Running"
            THEN /\ Cardinality(Holds(j)) = Demand(jobs[j].shape).hosts
                 /\ \A n \in Holds(j) :
                      /\ Cardinality(res[j][n].devices)
                            = Demand(jobs[j].shape).accelerators
                      /\ res[j][n].cpu = Demand(jobs[j].shape).cpu
                      /\ res[j][n].mem = Demand(jobs[j].shape).mem
            ELSE res[j] = NoReservation)
    /\ [][cyc.cur # 0 /\ cyc'.cur = 0 =>
            LET j == cyc.cur
                lapse == \E n \in Nodes : cyc.plan[n] # NoDebit /\ Stale(nodes, n)
            IN \/ /\ ~lapse
                  /\ jobs'[j].state = "Running"
                  /\ res'[j] = cyc.plan
               \/ /\ jobs'[j].state = "Queued"
                  /\ res' = res
                  /\ nodes' = nodes
                  /\ \A k \in Jobs \ {j} : jobs'[k] = jobs[k]
                  /\ SelectSeq(jobq', LAMBDA x : x # j) = jobq
                  /\ \E i \in 1..Len(jobq') :
                       /\ jobq'[i] = j
                       /\ \A m \in 1..(i - 1) :
                            jobs'[jobq'[m]].priority > jobs'[j].priority]_vars

\* a job that needs both nodes was checked feasible, the heartbeat of n2
\* lapsed, the commit was aborted after the debit on n1
C24_Witness ==
    \E j \in Jobs :
       /\ jobs[j].shape = "split4"
       /\ jobs[j].state = "Queued"
       /\ cyc.active /\ cyc.aborted /\ j \in cyc.passed
       /\ ~Stale(nodes, "n1") /\ Stale(nodes, "n2")
       /\ nodes["n2"].status = "Active"
       /\ res[j] = NoReservation
       /\ jobq[1] = j

\* priority, then submission timestamp, then job identifier
Precedes(a, b) ==
    \/ jobs[a].priority > jobs[b].priority
    \/ /\ jobs[a].priority = jobs[b].priority
       /\ \/ jobs[a].submitted < jobs[b].submitted
          \/ jobs[a].submitted = jobs[b].submitted /\ a < b

\* a queued job the cycle has not considered
Waiting(k) == jobs[k].state = "Queued" /\ k \notin cyc.considered

\* a step that places job b, and the higher-priority queued jobs that were
\* feasible as b was and are not after it
PlacedAhead(b) ==
    /\ cyc.cur = b
    /\ jobs'[b].state = "Running"
    /\ Feasible(nodes, res, Jobs, jobs[b].shape)
    /\ \E a \in Jobs :
         /\ jobs[a].state = "Queued" /\ jobs'[a].state = "Queued"
         /\ jobs[a].priority > jobs[b].priority
         /\ Feasible(nodes, res, Jobs, jobs[a].shape)
         /\ ~Feasible(nodes', res', Jobs, jobs[a].shape)

\* the step considers job j
Considers(j) ==
    /\ cyc.active /\ cyc.cur = 0
    /\ cyc'.attempts = cyc.attempts + 1
    /\ cyc'.cur = j \/ (cyc'.cur = 0 /\ j \in cyc'.passed \ cyc.passed)

BackfillScenario(hi, lo1, lo2) ==
    /\ cyc.active /\ ~cyc'.active
    /\ cfg.backfill_enabled
    /\ ~cyc.aborted
    /\ cyc.queued0 = {hi, lo1, lo2}
    /\ \A k \in Jobs \ cyc.queued0 : jobs[k].state # "Running"
    /\ \A n \in Nodes : nodes[n].status = "Active"
    /\ jobs[hi].shape = "wide16"
    /\ jobs[lo1].shape = "host8" /\ jobs[lo2].shape = "host8"
    /\ jobs[hi].priority > jobs[lo1].priority
    /\ jobs[hi].priority > jobs[lo2].priority
    /\ jobs[lo1].boost = 0 /\ jobs[lo2].boost = 0
    /\ Precedes(lo1, lo2)

\* C26: a job is placed after the cycle passed over a blocked job only with
\* backfill enabled, by the planned reservation as a whole, and only if the
\* reservation leaves the blocked job feasible wherever it was, whichever
\* running jobs complete; and the cycle of scenario S3 ends with J_lo1 on n1,
\* J_lo2 on n2 and J_hi Queued.
C26_BackfillHarmless ==
    [][/\ \A b \in Jobs :
            cyc.cur = b /\ jobs'[b].state = "Running" /\ cyc.blocked # 0 =>
               /\ cfg.backfill_enabled
               /\ res'[b] = cyc.plan
               /\ \A S \in SUBSET RunningJobs(jobs) :
                     Feasible(nodes, res, S, jobs[cyc.blocked].shape) =>
                        Feasible(nodes, res', S \cup {b}, jobs[cyc.blocked].shape)
       /\ \A hi, lo1, lo2 \in Jobs :
            BackfillScenario(hi, lo1, lo2) =>
               /\ jobs[hi].state = "Queued"
               /\ jobs[lo1].state = "Running" /\ Holds(lo1) = {"n1"}
               /\ jobs[lo2].state = "Running" /\ Holds(lo2) = {"n2"}]_vars

\* the cycle of scenario S3 has considered the three jobs
C26_Witness ==
    \E hi, lo1, lo2 \in Jobs :
       /\ cyc.active /\ cyc.cur = 0 /\ ~cyc.aborted
       /\ cfg.backfill_enabled
       /\ cyc.queued0 = {hi, lo1, lo2} /\ cyc.considered = {hi, lo1, lo2}
       /\ cyc.blocked = hi
       /\ jobs[hi].shape = "wide16" /\ jobs[hi].state = "Queued"
       /\ jobs[hi].priority > jobs[lo1].priority
       /\ jobs[lo1].shape = "host8" /\ jobs[lo2].shape = "host8"
       /\ jobs[lo1].boost = 0 /\ jobs[lo2].boost = 0
       /\ Precedes(lo1, lo2)
       /\ Cardinality(res[lo1]["n1"].devices) = 8
       /\ Cardinality(res[lo2]["n2"].devices) = 8

\* C27: a job leaves Running for Queued only as the victim of the job being
\* placed, whose priority is higher by the margin at least; the victim's
\* resources are released and the incoming job is Running.  A job that is
\* infeasible and has no running job below it by the margin preempts nothing
\* and stays Queued; one that has such jobs, whose release makes it feasible,
\* goes on to its reservation with victims marked.
C27_PreemptionMargin ==
    [][/\ \A v \in Jobs :
            jobs[v].state = "Running" /\ jobs'[v].state = "Queued" =>
               /\ cyc.cur # 0 /\ v \in cyc.victims
               /\ jobs[cyc.cur].priority >= jobs[v].priority + preemption_margin
               /\ jobs[cyc.cur].priority > jobs[v].priority
               /\ res'[v] = NoReservation
               /\ jobs'[cyc.cur].state = "Running"
       /\ \A j \in Jobs :
            Considers(j) /\ ~Feasible(nodes, res, Jobs, jobs[j].shape) =>
               LET below == {v \in RunningJobs(jobs) :
                               jobs[j].priority
                                  >= jobs[v].priority + preemption_margin}
               IN /\ below = {} =>
                       /\ jobs'[j].state = "Queued"
                       /\ cyc'.cur = 0
                       /\ jobs' = jobs /\ res' = res
                  /\ /\ cyc.blocked = 0
                     /\ \E V \in SUBSET below :
                          Feasible(nodes, Release(res, V), Jobs, jobs[j].shape)
                     => cyc'.cur = j /\ cyc'.victims # {}]_vars

\* scenario S6 with margin 2: the victim of priority 5 is Queued again, holds
\* nothing, and the incoming job of priority 8 is Running on its node
C27_Witness ==
    \E v, a \in Jobs :
       /\ preemption_margin = 2
       /\ jobs[v].priority = 5 /\ jobs[v].state = "Queued"
       /\ res[v] = NoReservation
       /\ jobs[a].priority = 8 /\ jobs[a].state = "Running"
       /\ cyc.active /\ a \in cyc.considered /\ v \notin cyc.queued0
       /\ jobs[v].shape = "host8" /\ res[a]["n1"] # NoDebit

\* C28: a sweep makes every Active node whose last heartbeat is older than
\* 60 seconds Inactive, and every job running on a node that is Inactive
\* after the sweep is Failed, or re-placed on Active nodes; no reservation
\* entry is created on a node that is not Active, and a Failed job holds no
\* reservation.
C28_SweepFailsJobs ==
    /\ [][Sweep =>
            /\ \A n \in Nodes :
                  nodes[n].status = "Active" /\ nodes[n].age > 60 =>
                     nodes'[n].status = "Inactive"
            /\ \A j \in Jobs :
                  /\ jobs[j].state = "Running"
                  /\ \E n \in Holds(j) : nodes'[n].status = "Inactive"
                  => \/ jobs'[j].state = "Failed"
                     \/ /\ jobs'[j].state = "Running"
                        /\ \A n \in Nodes :
                             res'[j][n] # NoDebit => nodes'[n].status = "Active"]_vars
    /\ [][\A j \in Jobs, n \in Nodes :
            res'[j][n] # NoDebit /\ res'[j][n] # res[j][n] =>
               nodes[n].status = "Active" /\ nodes'[n].status = "Active"]_vars
    /\ [](\A j \in Jobs : jobs[j].state = "Failed" => res[j] = NoReservation)
    /\ [](\A j \in Jobs : \A n \in Holds(j) : nodes[n].status = "Active")

\* n1 is Inactive, its heartbeat older than the timeout; a job that ran on
\* it is Failed, another job runs on n2
C28_Witness ==
    /\ nodes["n1"].status = "Inactive" /\ nodes["n1"].age > 60
    /\ nodes["n2"].status = "Active"
    /\ \E j, k \in Jobs :
         /\ jobs[j].state = "Failed" /\ res[j] = NoReservation
         /\ jobs[k].state = "Running" /\ Holds(k) = {"n2"}

(***************************************************************************)
(* dataplane/src/lib.rs: DataPlaneEngine.  A bounded crossbeam channel     *)
(* carries the events from ingest to the processing tasks that start       *)
(* spawns on the runtime.  An event is named by the number of the ingest   *)
(* call that carries it.  dp.accepted holds the events whose send has      *)
(* completed, dp.received the events the tasks took from the channel.      *)
(* The runtime has either worker threads of its own or a single thread,    *)
(* the one that also runs the caller's future: then a spawned task is      *)
(* polled only while that thread is not blocked inside a call.             *)
(***************************************************************************)
oldVars == <<ringVars, engineVars, driverVars, countVars, lifeVars, hostVars,
             telVars, schedVars>>
nonPlane == <<oldVars, poolVars, handleVars, cpuVars, pipeVars,
    snapVars>>

\* DataPlaneEngine::new(queue_size): bounded(queue_size), stats 0, not running
DataPlaneEngineNew ==
    /\ ~dp.built
    /\ \E queue_size \in 0..MaxQueueSize, flavor \in Flavors :
         dp' = [NoPlane EXCEPT !.built = TRUE, !.flavor = flavor,
                               !.queue_size = queue_size]
    /\ UNCHANGED <<dcall, dtask, nonPlane>>

\* bounded channel: a send completes at once when a slot is free
HasRoom(d) == Len(d.chan) < d.queue_size

\* start(): running.store(true), tokio::spawn of one more processing task
Start(c) ==
    /\ dp.built /\ dcall[c] = 0
    /\ \E t \in Tasks :
         /\ dtask[t] = "none"
         /\ \A u \in Tasks : u < t => dtask[u] # "none"
         /\ dtask' = [dtask EXCEPT ![t] = "check"]
    /\ dp' = [dp EXCEPT !.running = TRUE, !.started = TRUE]
    /\ UNCHANGED <<dcall, nonPlane>>

\* ingest(event): ingress_tx.send(event) puts the event into the channel, or
\* parks the caller while the channel is full
Ingest(c) ==
    /\ dp.built /\ dcall[c] = 0 /\ dp.ingests < MaxIngest
    /\ LET id == dp.ingests + 1 IN
         IF HasRoom(dp)
         THEN /\ dp' = [dp EXCEPT !.ingests = id, !.chan = Append(@, id),
                                  !.accepted = @ \cup {id}]
              /\ UNCHANGED dcall
         ELSE /\ dp' = [dp EXCEPT !.ingests = id]
              /\ dcall' = [dcall EXCEPT ![c] = id]
    /\ UNCHANGED <<dtask, nonPlane>>

\* a parked send goes on when a slot has become free; ingest returns Ok
IngestWake(c) ==
    /\ dcall[c] # 0 /\ HasRoom(dp)
    /\ dp' = [dp EXCEPT !.chan = Append(@, dcall[c]),
                        !.accepted = @ \cup {dcall[c]}]
    /\ dcall' = [dcall EXCEPT ![c] = 0]
    /\ UNCHANGED <<dtask, nonPlane>>

\* stop(): running.store(false)
Stop(c) ==
    /\ dp.built /\ dcall[c] = 0
    /\ dp' = [dp EXCEPT !.running = FALSE, !.stopped = TRUE]
    /\ UNCHANGED <<dcall, dtask, nonPlane>>

\* the runtime polls a spawned task: always when it has worker threads, and
\* with a single thread only while that thread is not parked inside send
Polled == dp.flavor = "multi_thread" \/ dcall[Driver] = 0

\* while running.load(): the task goes on, or ends
TaskCheck(t) ==
    /\ dtask[t] = "check" /\ Polled
    /\ dtask' = [dtask EXCEPT ![t] = IF dp.running THEN "recv" ELSE "done"]
    /\ UNCHANGED <<dp, dcall, nonPlane>>

\* rx.try_recv(): the oldest event of the channel; with a channel of size 0
\* the event of a parked sender; else Err and the task sleeps
TaskRecv(t) ==
    /\ dtask[t] = "recv" /\ Polled
    /\ IF dp.chan # <<>>
       THEN /\ dp' = [dp EXCEPT !.chan = Tail(@),
                                !.received = Append(@, Head(dp.chan))]
            /\ dtask' = [dtask EXCEPT ![t] = "count"]
            /\ UNCHANGED dcall
       ELSE IF dp.queue_size = 0 /\ \E c \in Callers : dcall[c] # 0
       THEN /\ \E c \in Callers :
                 /\ dcall[c] # 0
                 /\ dp' = [dp EXCEPT !.accepted = @ \cup {dcall[c]},
                                     !.received = Append(@, dcall[c])]
                 /\ dcall' = [dcall EXCEPT ![c] = 0]
            /\ dtask' = [dtask EXCEPT ![t] = "count"]
       ELSE /\ dtask' = [dtask EXCEPT ![t] = "check"]
            /\ UNCHANGED <<dp, dcall>>
    /\ UNCHANGED nonPlane

\* Ok(event): stats.fetch_add(1)
TaskCount(t) ==
    /\ dtask[t] = "count" /\ Polled
    /\ dp' = [dp EXCEPT !.stats = @ + 1]
    /\ dtask' = [dtask EXCEPT ![t] = "check"]
    /\ UNCHANGED <<dcall, nonPlane>>

\* get_stats()
get_stats(d) ==
    [events_received |-> d.stats, events_processed |-> d.stats,
     events_dropped |-> 0, bytes_processed |-> 0]

TaskStep(t) == TaskCheck(t) \/ TaskRecv(t) \/ TaskCount(t)

PlaneNext ==
    \/ DataPlaneEngineNew
    \/ \E c \in Callers : Start(c) \/ Ingest(c) \/ IngestWake(c) \/ Stop(c)
    \/ \E t \in Tasks : TaskStep(t)

PlaneSpec == Init /\ [][PlaneNext]_vars

\* the runtime polls every task it can poll, and a parked send is woken
FairPlaneSpec ==
    /\ PlaneSpec
    /\ \A t \in Tasks : WF_vars(TaskStep(t))
    /\ \A c \in Callers : WF_vars(IngestWake(c))

Processed == get_stats(dp).events_processed
Accepted == Cardinality(dp.accepted)

\* what C31 promises at all times: no event is counted before it was
\* accepted, and no event is received twice
ProcessedOnce ==
    /\ Processed <= Accepted
    /\ \A i, j \in 1..Len(dp.received) :
          /\ dp.received[i] \in dp.accepted
          /\ i # j => dp.received[i] # dp.received[j]

\* C31: after start, events_processed never exceeds the number of ingest
\* calls that succeeded, every accepted event is received once only, and as
\* long as stop has not been called events_processed eventually equals the
\* number of accepted events.
C31_ProcessedOnce ==
    /\ []ProcessedOnce
    /\ [](dp.started /\ ~dp.stopped =>
            <>(dp.stopped \/ Processed = Accepted))

\* the same with worker threads of the runtime's own
MultiThreadProcessedOnce ==
    /\ []ProcessedOnce
    /\ [](dp.flavor = "multi_thread" /\ dp.started /\ ~dp.stopped =>
            <>(dp.stopped \/ Processed = Accepted))

\* C38: every call of ingest returns, whatever the size of the channel and
\* whether or not a processing task is running.
C38_IngestReturns == \A c \in Callers : (dcall[c] # 0) ~> (dcall[c] = 0)

(***************************************************************************)
(* zenith-runtime-cpu/src/thread.rs: PinnedThreadPool.  spawn creates an   *)
(* OS thread that first tries to pin itself to the requested core and then *)
(* calls the closure; join_all joins the handles in the order they were    *)
(* pushed.  A closure ends by returning or by panicking, and the thread's  *)
(* result tells which.                                                     *)
(***************************************************************************)
nonPool == <<oldVars, planeVars, handleVars, cpuVars, pipeVars,
    snapVars>>

\* the cores a caller asks for: none, a core of the machine, one past the last
CoreArgs == {NoCore, 0, NumCores}

\* pin_to_core(core_id): Err when the core ids are unavailable or the id is
\* out of range
pin_to_core(core_ids, core_id) ==
    IF core_ids = 0 THEN "failed"
    ELSE IF core_id >= core_ids THEN "failed"
    ELSE "ok"

\* spawn(core_id, f): the builder creates the thread and the handle is
\* pushed, or the builder fails, the closure is dropped and Err is returned
PoolSpawn ==
    /\ pool.jpc = "open" /\ pool.spawns < MaxSpawns
    /\ LET i == pool.spawns + 1 IN
       \E core_id \in CoreArgs, created \in BOOLEAN :
         IF created
         THEN /\ thr' = [thr EXCEPT ![i] = [NoThread EXCEPT
                              !.state = "spawned", !.core = core_id]]
              /\ pool' = [pool EXCEPT !.spawns = i,
                                      !.handles = Append(@, i)]
         ELSE /\ pool' = [pool EXCEPT !.spawns = i, !.errors = @ + 1]
              /\ UNCHANGED thr
    /\ UNCHANGED nonPool

\* variant: a thread that cannot be pinned ends without calling the closure
ThreadPinFatal(i) ==
    /\ thr[i].state = "spawned"
    /\ \E core_ids \in {0, NumCores} :
         LET r == IF thr[i].core = NoCore THEN "none"
                  ELSE pin_to_core(core_ids, thr[i].core)
         IN thr' = [thr EXCEPT ![i].pinned = r,
                               ![i].state = IF r = "failed" THEN "done"
                                            ELSE "ready",
                               ![i].outcome = IF r = "failed" THEN "ok"
                                              ELSE "none"]
    /\ UNCHANGED <<pool, nonPool>>

\* the new thread: if let Some(core) = core_id, pin_to_core(core); a failure
\* is logged
ThreadPin(i) ==
    /\ thr[i].state = "spawned"
    /\ \E core_ids \in {0, NumCores} :
         thr' = [thr EXCEPT ![i].pinned =
                               IF thr[i].core = NoCore THEN "none"
                               ELSE pin_to_core(core_ids, thr[i].core),
                            ![i].state = "ready"]
    /\ UNCHANGED <<pool, nonPool>>

\* the new thread: f() is called
ThreadRun(i) ==
    /\ thr[i].state = "ready"
    /\ thr' = [thr EXCEPT ![i].state = "running", ![i].runs = @ + 1]
    /\ UNCHANGED <<pool, nonPool>>

\* f() returns, or panics and the thread unwinds
ThreadEnd(i) ==
    /\ thr[i].state = "running"
    /\ \E outcome \in {"ok", "panic"} :
         thr' = [thr EXCEPT ![i].state = "done", ![i].outcome = outcome]
    /\ UNCHANGED <<pool, nonPool>>

\* join_all(self): the pool is consumed
JoinAll ==
    /\ pool.jpc = "open"
    /\ pool' = [pool EXCEPT !.jpc = "joining"]
    /\ UNCHANGED <<thr, nonPool>>

\* h.join() on the next handle waits for its thread and collects the result;
\* after the last handle join_all returns
JoinNext ==
    /\ pool.jpc = "joining"
    /\ LET k == Len(pool.results) + 1 IN
         IF k > Len(pool.handles)
         THEN pool' = [pool EXCEPT !.jpc = "returned"]
         ELSE /\ thr[pool.handles[k]].state = "done"
              /\ pool' = [pool EXCEPT !.results =
                              Append(@, thr[pool.handles[k]].outcome)]
    /\ UNCHANGED <<thr, nonPool>>

Thread(i) == ThreadPin(i) \/ ThreadRun(i) \/ ThreadEnd(i)

PoolNext == PoolSpawn \/ JoinAll \/ JoinNext \/ \E i \in Spawns : Thread(i)

PoolSpec == Init /\ [][PoolNext]_vars

Spawned == {pool.handles[k] : k \in 1..Len(pool.handles)}

\* C32: when join_all has returned, the closure of every successful spawn
\* was called exactly once and has ended, also on a thread that could not be
\* pinned to its core; join_all's vector has one result per pushed handle,
\* in spawn order, each the result of that handle's thread; a closure whose
\* spawn failed never runs.
C32_JoinAll ==
    /\ pool.jpc = "returned" =>
         /\ \A i \in Spawned : thr[i].runs = 1 /\ thr[i].state = "done"
         /\ Len(pool.results) = Len(pool.handles)
         /\ \A k \in 1..Len(pool.handles) :
               /\ pool.results[k] = thr[pool.handles[k]].outcome
               /\ k > 1 => pool.handles[k - 1] < pool.handles[k]
    /\ \A i \in Spawns : thr[i].runs <= 1
    /\ \A i \in Spawns \ Spawned : thr[i].runs = 0

\* join_all has returned two results; one thread could not be pinned (the
\* core is out of range), one spawn had failed
C32_Witness ==
    /\ pool.jpc = "returned" /\ Len(pool.results) = 2 /\ pool.errors = 1
    /\ \E i \in Spawned : thr[i].pinned = "failed" /\ thr[i].core = NumCores
    /\ \E i \in Spawned : thr[i].outcome = "panic"

(***************************************************************************)
(* core/src/ring_buffer.rs, impl Clone, and ZenithEngine::get_ring_buffer. *)
(* A ZenithRingBuffer is an Arc pointer to an ArrayQueue allocation: heap  *)
(* holds the allocations, hnd the pointer of every handle (handle 1 is the *)
(* engine's own buffer field).  Calls through the handles are made one at  *)
(* a time here; hops.ref is one bounded FIFO fed by all of them.           *)
(***************************************************************************)
nonHandle == <<oldVars, planeVars, poolVars, cpuVars, pipeVars,
    snapVars>>

\* ZenithEngine::new(buffer_size): buffer = ZenithRingBuffer::new(buffer_size)
HandleEngineNew ==
    /\ heap = <<>>
    /\ \E buffer_size \in 1..MaxHandleCap :
         /\ heap' = <<ZenithRingBufferNew(buffer_size)>>
         /\ hops' = [NoOps EXCEPT !.cap = buffer_size]
    /\ hnd' = <<1>>
    /\ UNCHANGED nonHandle

\* variant: clone allocates a queue of its own with the same contents
ZenithRingBufferCloneDeep(hp, ptr) ==
    [heap |-> Append(hp, hp[ptr]), ptr |-> Len(hp) + 1]

\* Clone for ZenithRingBuffer: queue = self.queue.clone(), the Arc's pointer
ZenithRingBufferClone(hp, ptr) == [heap |-> hp, ptr |-> ptr]

\* get_ring_buffer(): self.buffer.clone()
get_ring_buffer(hp, hs) == ZenithRingBufferClone(hp, hs[1])

GetRingBuffer ==
    /\ hnd # <<>> /\ Len(hnd) < MaxHandles
    /\ heap' = get_ring_buffer(heap, hnd).heap
    /\ hnd' = Append(hnd, get_ring_buffer(heap, hnd).ptr)
    /\ UNCHANGED <<hops, nonHandle>>

\* a handle handed out earlier is cloned
CloneHandle ==
    /\ Len(hnd) < MaxHandles
    /\ \E h \in 2..Len(hnd) :
         /\ heap' = ZenithRingBufferClone(heap, hnd[h]).heap
         /\ hnd' = Append(hnd, ZenithRingBufferClone(heap, hnd[h]).ptr)
    /\ UNCHANGED <<hops, nonHandle>>

\* handle.push(event)
HandlePush ==
    /\ hops.count < MaxHandleOps
    /\ \E h \in 2..Len(hnd), src \in Sources :
         LET event == ZenithEvent(src, hops.count + 1, 0)
             r == push(hops.cap, heap[hnd[h]], event)
             m == RefPush(hops.cap, hops.ref, event)
             others == \A k \in 1..Len(hops.pushedVia) : hops.pushedVia[k] # h
         IN  /\ heap' = [heap EXCEPT ![hnd[h]] = r.q]
             /\ hops' = [hops EXCEPT
                   !.count = @ + 1, !.via = h, !.op = "push",
                   !.ret = <<r.ret>>, !.ref = m.q, !.refret = <<m.ret>>,
                   !.pushedVia = IF m.ret = "Ok" THEN Append(@, h) ELSE @,
                   !.from = 0,
                   !.crossFull = IF r.ret = "BufferFull" /\ others
                                 THEN 1 ELSE @]
    /\ UNCHANGED <<hnd, nonHandle>>

\* handle.pop()
HandlePop ==
    /\ hops.count < MaxHandleOps
    /\ \E h \in 2..Len(hnd) :
         LET r == pop(hops.cap, heap[hnd[h]])
             m == RefPop(hops.ref)
         IN  /\ heap' = [heap EXCEPT ![hnd[h]] = r.q]
             /\ hops' = [hops EXCEPT
                   !.count = @ + 1, !.via = h, !.op = "pop",
                   !.ret = <<r.ret>>, !.ref = m.q, !.refret = <<m.ret>>,
                   !.pushedVia = IF @ # <<>> THEN Tail(@) ELSE @,
                   !.from = IF hops.pushedVia # <<>>
                            THEN Head(hops.pushedVia) ELSE 0]
    /\ UNCHANGED <<hnd, nonHandle>>

HandleNext ==
    \/ HandleEngineNew
    \/ GetRingBuffer
    \/ CloneHandle
    \/ HandlePush
    \/ HandlePop

HandleSpec == Init /\ [][HandleNext]_vars

\* C33: through every handle, whether it came from get_ring_buffer or from
\* a clone, the queue holds what all the pushes and pops made through all
\* the handles left in one FIFO of capacity N: the same contents and the
\* same len(), never more than N events in total, and every call returns
\* what that one FIFO returns (a pop yields the oldest event whichever
\* handle pushed it, a push is refused exactly when the total is N).
C33_SharedQueue ==
    /\ \A h \in 1..Len(hnd) :
          /\ Contents(hops.cap, heap[hnd[h]]) = hops.ref
          /\ len(hops.cap, heap[hnd[h]]) = Len(hops.ref)
    /\ Len(hops.ref) <= hops.cap
    /\ hops.ret = hops.refret

\* a pop through the clone of a handle returned an event that was pushed
\* through the handle get_ring_buffer gave, and a push was refused while
\* the queue was filled through other handles alone
C33_Witness ==
    /\ Len(hnd) = 3
    /\ hops.op = "pop" /\ hops.ret # <<NoEvent>>
    /\ hops.via = 3 /\ hops.from = 2
    /\ hops.crossFull = 1

(***************************************************************************)
(* zenith-runtime-cpu/src/engine.rs: CpuEngine.run, stop and is_running.   *)
(* run swaps the running flag, starts the collector and loops, sleeping,   *)
(* until it loads false; stop stores false and stops the collector.  The   *)
(* engine is built from the default configuration: telemetry is enabled.   *)
(* ce.before holds the run calls that were in progress when stop was last  *)
(* called and have not returned yet; ce.after tells whether run was called *)
(* since.                                                                  *)
(***************************************************************************)
nonCpu == <<oldVars, planeVars, poolVars, handleVars, pipeVars,
    snapVars>>

InRun(t) == cepc[t] \in {"called", "start", "loop", "sleep"}
InLoop(t) == cepc[t] \in {"start", "loop", "sleep"}

\* is_running(): running.load()
is_running == ce.running

\* a task calls run()
RunCall(t) ==
    /\ ~InRun(t) /\ ce.runs < MaxRuns
    /\ cepc' = [cepc EXCEPT ![t] = "called"]
    /\ ce' = [ce EXCEPT !.runs = @ + 1, !.after = (ce.stops > 0)]
    /\ UNCHANGED nonCpu

\* if running.swap(true) { return Err("Engine is already running") }
RunSwap(t) ==
    /\ cepc[t] = "called"
    /\ cepc' = [cepc EXCEPT ![t] = IF ce.running THEN "err" ELSE "start"]
    /\ ce' = [ce EXCEPT !.running = TRUE,
                        !.before = IF ce.running THEN @ \ {t} ELSE @]
    /\ UNCHANGED nonCpu

\* telemetry.start()
RunTelemetry(t) ==
    /\ cepc[t] = "start"
    /\ cepc' = [cepc EXCEPT ![t] = "loop"]
    /\ ce' = [ce EXCEPT !.telemetry = TRUE]
    /\ UNCHANGED nonCpu

\* while running.load(): into the sleep, or out of the loop and return Ok
RunLoad(t) ==
    /\ cepc[t] = "loop"
    /\ cepc' = [cepc EXCEPT ![t] = IF ce.running THEN "sleep" ELSE "ok"]
    /\ ce' = [ce EXCEPT !.before = IF ce.running THEN @ ELSE @ \ {t}]
    /\ UNCHANGED nonCpu

\* the sleep of 100 ms is over
RunSleep(t) ==
    /\ cepc[t] = "sleep"
    /\ cepc' = [cepc EXCEPT ![t] = "loop"]
    /\ UNCHANGED <<ce, nonCpu>>

\* stop(): running.store(false)
StopStore ==
    /\ ce.spc = "idle" /\ ce.stops < MaxStops
    /\ ce' = [ce EXCEPT !.running = FALSE, !.stops = @ + 1,
                        !.spc = "telemetry",
                        !.before = {t \in Runners : InRun(t)},
                        !.after = FALSE]
    /\ UNCHANGED <<cepc, nonCpu>>

\* stop(): telemetry.stop()
StopTelemetry ==
    /\ ce.spc = "telemetry"
    /\ ce' = [ce EXCEPT !.telemetry = FALSE, !.spc = "idle"]
    /\ UNCHANGED <<cepc, nonCpu>>

RunStep(t) == RunSwap(t) \/ RunTelemetry(t) \/ RunLoad(t) \/ RunSleep(t)

CpuNext ==
    \/ \E t \in Runners : RunCall(t) \/ RunStep(t)
    \/ StopStore
    \/ StopTelemetry

CpuSpec == Init /\ [][CpuNext]_vars

\* every task inside run is scheduled, and so is the thread inside stop
FairCpuSpec ==
    /\ CpuSpec
    /\ \A t \in Runners : WF_vars(RunStep(t))
    /\ WF_vars(StopTelemetry)

Refused(t) == cepc[t] = "called" /\ cepc'[t] = "err"

\* C34: a new engine is not running; at most one call of run is inside the
\* processing loop at any time, and exactly one while the running flag is
\* set; a call that finds the engine running returns the error and leaves
\* the flag as it was.
C34_RunExclusive ==
    /\ [](ce.runs = 0 /\ ce.stops = 0 => ~is_running)
    /\ [](Cardinality({t \in Runners : InLoop(t)}) <= 1)
    /\ [](is_running => \E t \in Runners : InLoop(t))
    /\ [][\A t \in Runners : Refused(t) => ce.running /\ ce'.running]_vars

\* the same when stop is never called
RunExclusiveUnstopped ==
    ce.stops = 0 =>
       /\ Cardinality({t \in Runners : InLoop(t)}) <= 1
       /\ is_running => \E t \in Runners : InLoop(t)

\* after stop has returned and every run call in progress at the stop has
\* returned, with no run call made since
Stopped ==
    /\ ce.stops > 0 /\ ce.spc = "idle"
    /\ ce.before = {} /\ ~ce.after

\* C35: every run call that was in progress when stop was called returns,
\* and once they have (with no run call made since the stop) is_running()
\* is false and the collector is stopped.
C35_StopEndsRun ==
    /\ \A t \in Runners : (t \in ce.before) ~> (t \notin ce.before)
    /\ [](Stopped => ~is_running /\ ~ce.telemetry)

(***************************************************************************)
(* dataplane/src/pipeline.rs and processor.rs: Pipeline.execute over the   *)
(* stages added by add_stage.  An event is a number 0..MaxEvent.  A stage  *)
(* is a FilterStage with a predicate, a TransformStage with a transformer, *)
(* or another PipelineStage that returns an error for some events.  The    *)
(* result of execute carries, besides the value returned, the process      *)
(* calls that were made: the stage's position, the event it was given and  *)
(* what it returned.                                                       *)
(***************************************************************************)
nonPipe == <<oldVars, planeVars, poolVars, handleVars, cpuVars,
    snapVars>>

Events == 0..MaxEvent

\* the closures and stages of the scenarios
predicate(f, event) ==
    CASE f = "even" -> event % 2 = 0
      [] OTHER -> event < 2

transformer(f, event) ==
    CASE f = "inc" -> (event + 1) % (MaxEvent + 1)
      [] OTHER -> 0

StageSet ==
    {[kind |-> "filter", f |-> "even"], [kind |-> "filter", f |-> "small"],
     [kind |-> "transform", f |-> "inc"], [kind |-> "transform", f |-> "zero"],
     [kind |-> "failing", f |-> "odd"]}

\* FilterStage::process
FilterStage(f, event) == IF predicate(f, event) THEN Some(event) ELSE None

\* TransformStage::process
TransformStage(f, event) == Some(transformer(f, event))

\* stage.process(&event)
process(stage, event) ==
    CASE stage.kind = "filter" -> FilterStage(stage.f, event)
      [] stage.kind = "transform" -> TransformStage(stage.f, event)
      [] OTHER -> IF event % 2 = 1 THEN Err(event) ELSE Some(event)

\* variant: an event that a stage filtered out is handed on to the next stage
RECURSIVE executeFromPastNone(_, _, _, _)
executeFromPastNone(stages, event, i, calls) ==
    IF i > Len(stages) THEN [out |-> Some(event), calls |-> calls]
    ELSE LET r == process(stages[i], event)
             cs == Append(calls, [stage |-> i, input |-> event, output |-> r])
         IN  IF r.tag = "Err" THEN [out |-> r, calls |-> cs]
             ELSE IF r.tag = "None"
             THEN executeFromPastNone(stages, event, i + 1, cs)
             ELSE executeFromPastNone(stages, r.val, i + 1, cs)

\* for stage in &self.stages, from the i-th stage on: an error is returned
\* by the ? operator, None returns Ok(None), Some(e) replaces the event
RECURSIVE executeFrom(_, _, _, _)
executeFrom(stages, event, i, calls) ==
    IF i > Len(stages) THEN [out |-> Some(event), calls |-> calls]
    ELSE LET r == process(stages[i], event)
             cs == Append(calls, [stage |-> i, input |-> event, output |-> r])
         IN  IF r.tag = "Err" THEN [out |-> r, calls |-> cs]
             ELSE IF r.tag = "None" THEN [out |-> None, calls |-> cs]
             ELSE executeFrom(stages, r.val, i + 1, cs)

\* variant of execute: filtered events are handed on
executePastNone(stages, event) == executeFromPastNone(stages, event, 1, <<>>)

\* Pipeline::execute(event)
execute(stages, event) == executeFrom(stages, event, 1, <<>>)

\* add_stage(stage): stages.push
AddStage ==
    /\ Len(pl.stages) < MaxStages
    /\ \E stage \in StageSet :
         pl' = [pl EXCEPT !.stages = Append(@, stage), !.done = FALSE,
                          !.input = 0, !.out = None, !.calls = <<>>]
    /\ UNCHANGED nonPipe

Execute ==
    /\ \E event \in Events :
         pl' = [pl EXCEPT !.done = TRUE, !.input = event,
                          !.out = execute(pl.stages, event).out,
                          !.calls = execute(pl.stages, event).calls]
    /\ UNCHANGED nonPipe

PipeNext == AddStage \/ Execute

PipeSpec == Init /\ [][PipeNext]_vars

\* C36: execute calls the stages in the order they were added, the first
\* with the input event and each later one with the event the stage before
\* it returned; the first stage that returns None or an error is the last
\* one called and its None or error is the result; when every stage
\* returns an event the result is the last event (the input itself for a
\* pipeline without stages); a FilterStage returns its argument when the
\* predicate holds and None otherwise; a TransformStage returns the
\* transformed event, never None.
C36_Execute ==
    /\ pl.done =>
         LET n == Len(pl.stages)
             k == Len(pl.calls)
             stopped == {i \in 1..k : pl.calls[i].output.tag # "Some"}
         IN  /\ k <= n
             /\ \A i \in 1..k :
                   /\ pl.calls[i].stage = i
                   /\ pl.calls[i].output = process(pl.stages[i], pl.calls[i].input)
                   /\ pl.calls[i].input =
                         IF i = 1 THEN pl.input ELSE pl.calls[i - 1].output.val
             /\ IF stopped # {}
                THEN stopped = {k} /\ pl.out = pl.calls[k].output
                ELSE /\ k = n
                     /\ pl.out = Some(IF n = 0 THEN pl.input
                                      ELSE pl.calls[n].output.val)
    /\ \A event \in Events, st \in StageSet :
          /\ st.kind = "filter" =>
                process(st, event) =
                   IF predicate(st.f, event) THEN Some(event) ELSE None
          /\ st.kind = "transform" =>
                process(st, event) = Some(transformer(st.f, event))

\* three stages: the transform changed the event, the filter that came next
\* dropped what it was given, the third stage was not called
C36_Witness ==
    /\ pl.done /\ Len(pl.stages) = 3 /\ Len(pl.calls) = 2
    /\ pl.stages[1].kind = "transform" /\ pl.stages[2].kind = "filter"
    /\ pl.calls[1].output.val # pl.input
    /\ predicate(pl.stages[2].f, pl.input)
    /\ pl.out = None

(***************************************************************************)
(* zenith-runtime-cpu/src/telemetry.rs: snapshot() called from a thread of *)
(* its own while other threads are inside record_event, record_latency or  *)
(* reset.  snapshot loads events_processed, bytes_processed, latency_count *)
(* and latency_sum one after the other, computes the averages and loads    *)
(* latency_max last.  The values of events and bytes are not kept here.    *)
(* snp.counted is the sum of the measurements that latency_count counted   *)
(* when it was loaded; snp.reset tells that a reset was in progress at one *)
(* of the loads, snp.quiet that no other call was in progress at any.      *)
(***************************************************************************)
nonSnap == <<oldVars, planeVars, poolVars, handleVars, cpuVars, pipeVars>>

\* the measurements added to latency_sum that latency_count does not count yet
Uncounted ==
    LET a == IF rpc[1] = "latency_count" THEN rarg[1] ELSE 0
        b == IF rpc[2] = "latency_count" THEN rarg[2] ELSE 0
    IN  a + b

Observed(sn) ==
    [sn EXCEPT !.reset = @ \/ Resetting \/ overlap,
               !.quiet = @ /\ Quiescent /\ nrec = sn.nrec0]

\* events_processed.load()
SnapshotEvents ==
    /\ snp.pc = "idle"
    /\ snp' = Observed([snp EXCEPT !.pc = "bytes", !.nrec0 = nrec])
    /\ UNCHANGED nonSnap

\* bytes_processed.load()
SnapshotBytes ==
    /\ snp.pc = "bytes"
    /\ snp' = Observed([snp EXCEPT !.pc = "count"])
    /\ UNCHANGED nonSnap

\* latency_count.load()
SnapshotCount ==
    /\ snp.pc = "count"
    /\ snp' = Observed([snp EXCEPT !.pc = "sum",
                                   !.latency_count = tel.latency_count,
                                   !.counted = since.latency_sum - Uncounted])
    /\ UNCHANGED nonSnap

\* latency_sum.load()
SnapshotSum ==
    /\ snp.pc = "sum"
    /\ snp' = Observed([snp EXCEPT !.pc = "max",
                                   !.latency_sum = tel.latency_sum])
    /\ UNCHANGED nonSnap

\* avg_latency_us from the two values loaded; latency_max.load()
SnapshotMax ==
    /\ snp.pc = "max"
    /\ LET r == snapshot([NoCounts EXCEPT
                            !.latency_count = snp.latency_count,
                            !.latency_sum = snp.latency_sum,
                            !.latency_max = tel.latency_max])
       IN  snp' = Observed([snp EXCEPT !.pc = "done",
                                      !.avg_latency_us = r.avg_latency_us,
                                      !.max_latency_us = r.max_latency_us])
    /\ UNCHANGED nonSnap

Snapshot ==
    \/ SnapshotEvents
    \/ SnapshotBytes
    \/ SnapshotCount
    \/ SnapshotSum
    \/ SnapshotMax

SnapshotNext == TelemetryNext \/ Snapshot

SnapshotSpec == Init /\ [][SnapshotNext]_vars

\* C37: in every snapshot returned, also one taken while other threads are
\* inside record_latency or reset, avg_latency_us is at most max_latency_us,
\* and (no reset being in progress) the latency sum it divides is the sum
\* of the very measurements its latency count counts.
C37_SnapshotConsistent ==
    snp.pc = "done" =>
       /\ snp.avg_latency_us <= snp.max_latency_us
       /\ ~snp.reset /\ snp.latency_count > 0 =>
             snp.latency_sum = snp.counted % CounterModulus

\* the same for a snapshot taken while no other call is in progress
QuietSnapshotConsistent ==
    snp.pc = "done" /\ snp.quiet /\ ~snp.reset =>
       /\ snp.avg_latency_us <= snp.max_latency_us
       /\ snp.latency_sum = snp.counted % CounterModulus

====
